---- MODULE Spec2Model ----
(***************************************************************************)
(* Model of the domain hunter (src/domain_hunter_railway.py):              *)
(*   - WHOISChecker.check_domain: one classify round, its worker threads   *)
(*     (_check_with_retry / _check) and the proxy pool they share;         *)
(*   - DomainHunter.search_domains: the resumable scan loop, the monitor   *)
(*     thread, the shutdown handler, load_state / save_state.              *)
(* SpecRound explores one classify round, SpecScan the scan loop.          *)
(***************************************************************************)
EXTENDS Integers, Sequences, FiniteSets, TLC

(***************************************************************************)
(* Bounds of the model                                                     *)
(***************************************************************************)
\* number of sources of a round (len(self.services) is 13 in the source)
NumSources == 3
\* number of proxy addresses that exist in the modelled world
NumProxies == 1

Sources == 1..NumSources
Proxies == 1..NumProxies

(***************************************************************************)
(* Signals and verdicts                                                    *)
(***************************************************************************)
SigTrue == "True"
SigFalse == "False"
SigNone == "None"
Signals == {SigTrue, SigFalse, SigNone}
\* what one call of service['check'] can do: return a signal, or raise
Outcomes == Signals \cup {"raise"}
NoProxy == 0

\* quorum of the specification text and of test_proxy.py
QuorumClaimed == 3
\* the number of Positive signals after which check_domain returns
Quorum == 1

VARIABLES
    \* ---- ProxyManager ----
    proxies,        \* deque of working proxies (head = left end)
    bad_proxies,    \* set of proxies reported bad
    \* ---- one classify round (WHOISChecker.check_domain) ----
    fstate,         \* per source: position of its future / worker thread
    useProxy,       \* per source: use_proxy of the attempt in progress
    held,           \* per source: proxy acquired for the attempt in progress
    fresult,        \* per source: result of its future (SigNone until done)
    arrived,        \* sources in completion order (as_completed)
    consumed,       \* how many completed futures the result loop has taken
    results,        \* the list `results` of check_domain
    rpc,            \* position of the calling thread in check_domain
    verdict,        \* "none" while undecided, else what check_domain returns
    timedOut,       \* as_completed raised its timeout
    pyAlias,        \* interpreter: concurrent.futures.TimeoutError is the
                    \* builtin TimeoutError (Python >= 3.11) or not (3.9, 3.10)
    \* ---- WhoisProxyRotator (domain_hunter_proxy, exercised by test_proxy.py) ----
    health,         \* service_health, per (source, egress) pair
    now,            \* the clock the health records are stamped with
    \* ---- DomainHunter ----
    state,          \* self.state: the cursor and the counters of the checkpoint
    check_count,    \* self.check_count
    found_domains,  \* self.found_domains
    running,        \* self.running
    stateFile,      \* /data/hunter_state.json: <<document>>, or NoFile
    tmpExists,      \* /data/hunter_state.json.tmp exists
    tmpFile,        \* what /data/hunter_state.json.tmp holds
    fdAt,           \* per thread: where the file it has open for writing is
    buf,            \* per thread: the document buffered in its open file
    opc,            \* position of the monitor thread in its cycle
    msite,          \* the call of save_state the main thread is in
    hret,           \* where the main thread goes on after the handler
    scraping,       \* proxy_manager.scraping
    resultsFile,    \* contents of /data/found_domains.json
    mpc,            \* position of the main thread in run / search_domains
    length,         \* local `length` of search_domains
    tld,            \* index of local `tld` in PRIORITY_TLDS
    i,              \* loop variable of the per-TLD loop
    monitorAlive,   \* the monitor thread has not left its loop
    signalled,      \* a shutdown signal has been delivered to this process
    restarts,       \* number of restarts so far
    steps,          \* history: candidates formed so far
    cycles,         \* history: monitor cycles begun so far
    hist,           \* history of the current loop iteration and of the run
    \* ---- ProxyManager: discovery and the tester thread ----
    proxy_queue,    \* self.proxy_queue: addresses found, not yet probed
    scrapeDue,      \* time.time() - self.last_scrape > 3600
    inflight,       \* number of _scrape threads that have not finished
    tpc,            \* position of the tester thread in its loop
    tproxy,         \* local `proxy` of _tester
    cpc,            \* per call of get_proxy: the position of its thread
    cheld,          \* per call of get_proxy: the address it took
    gpc,            \* per caller of trigger_scrape: its position
    probed,         \* history: addresses whose probe returned status 200
    failures,       \* history: per address with a failed query through it,
                    \* how many (1, or 2 for more than one)
    \* ---- ProxyScraper (proxy_scraper.py) ----
    working_proxies,  \* self.working_proxies
    tested_proxies,   \* self.tested_proxies, per address: not a key
                      \* ("absent"), tested more than 300 s ago or never
                      \* ("due"), or tested since ("fresh")
    futures,          \* per address: the future of its test in this batch
    lpc,              \* position of the tester thread in _tester_loop
    lastTest,         \* history: per address, the result of the last test
                      \* the loop has taken from its future
    got,              \* what the last call of get_proxy returned
    seen              \* 'working' in what the last call of get_stats returned

roundVars == <<proxies, bad_proxies, fstate, useProxy, held, fresult, arrived,
               consumed, results, rpc, verdict, timedOut>>

fileVars == <<stateFile, tmpExists, tmpFile, fdAt, buf>>

scanVars == <<state, check_count, found_domains, running, fileVars, resultsFile,
              mpc, length, tld, i, monitorAlive, signalled, restarts, steps, cycles,
              hist, opc, msite, hret, scraping>>

poolVars == <<proxy_queue, scrapeDue, inflight, tpc, tproxy, cpc, cheld, gpc,
              probed, failures>>

healthVars == <<health, now>>

scraperVars == <<working_proxies, tested_proxies, futures, lpc, lastTest, got,
                 seen>>

\* the variables of a round but the pool, and those of the scan but the flag
\* of the pool
roundRest == <<fstate, useProxy, held, fresult, arrived, consumed, results,
               rpc, verdict, timedOut>>

scanRest == <<state, check_count, found_domains, running, fileVars, resultsFile,
              mpc, length, tld, i, monitorAlive, signalled, restarts, steps,
              cycles, hist, opc, msite, hret>>

vars == <<roundVars, scanVars, poolVars, pyAlias, healthVars, scraperVars>>

(***************************************************************************)
(* ProxyManager.get_proxy / mark_bad                                       *)
(***************************************************************************)
\* get_proxy: the address returned (NoProxy for None)
GetProxyResult(ps) == IF Len(ps) > 0 THEN Head(ps) ELSE NoProxy

\* get_proxy: the deque afterwards (popleft, append)
GetProxyRotate(ps) == IF Len(ps) > 0 THEN Append(Tail(ps), Head(ps)) ELSE ps

\* deque.remove(proxy): drop the first occurrence
RECURSIVE RemoveFirst(_, _)
RemoveFirst(ps, p) ==
    IF ps = <<>> THEN <<>>
    ELSE IF Head(ps) = p THEN Tail(ps)
    ELSE <<Head(ps)>> \o RemoveFirst(Tail(ps), p)

InSeq(ps, p) == \E k \in 1..Len(ps) : ps[k] = p

\* mark_bad: the deque afterwards
MarkBadProxies(ps, p) == IF InSeq(ps, p) THEN RemoveFirst(ps, p) ELSE ps

\* mark_bad: the bad set afterwards
MarkBadSet(bad, p) == bad \cup {p}

(***************************************************************************)
(* WHOISChecker.check_domain: reduction of signals                         *)
(***************************************************************************)
\* mutant: a Positive signal is collected and the result loop goes on
SignalVerdict_NegativeOnly(r) == IF r = SigFalse THEN "taken" ELSE "none"

\* mutant: the two verdicts of the result loop are swapped
SignalVerdict_Swapped(r) ==
    IF r = SigFalse THEN "available"
    ELSE IF r = SigTrue THEN "taken"
    ELSE "none"

\* the body of the result loop for one non-None result
SignalVerdict(r) ==
    IF r = SigFalse THEN "taken"
    ELSE IF r = SigTrue THEN "available"
    ELSE "none"

\* mutant: a round without any signal is taken for available
Evaluate_DefaultAvailable(rs) ==
    IF \E k \in 1..Len(rs) : rs[k] = SigFalse THEN "taken"
    ELSE "available"

\* the evaluation after the loop
Evaluate(rs) ==
    IF \E k \in 1..Len(rs) : rs[k] = SigFalse THEN "taken"
    ELSE IF \E k \in 1..Len(rs) : rs[k] = SigTrue THEN "available"
    ELSE "taken"

\* executor.shutdown(wait=False, cancel_futures=True): work items that no
\* worker thread has picked up yet are cancelled, running ones keep running
CancelQueued(fs) == [s \in Sources |-> IF fs[s] = "queued" THEN "cancelled" ELSE fs[s]]

Running(s) == fstate[s] \in {"queued", "net1", "start2", "net2"}
Finished(s) == fstate[s] \in {"done", "cancelled"}

\* mutant: leaving the `with` block does not wait for the workers
Joined_NoWait(fs) == TRUE

\* line 172: ThreadPoolExecutor.__exit__ returns once no work item is
\* queued or running
Joined(fs) == \A s \in Sources : fs[s] \in {"done", "cancelled"}

(***************************************************************************)
(* Init of a round: check_domain has submitted one future per source       *)
(***************************************************************************)
InitPools == {[k \in 1..n |-> k] : n \in 0..NumProxies}

InitRound ==
    /\ proxies \in InitPools
    /\ bad_proxies = {}
    /\ fstate = [s \in Sources |-> "queued"]
    /\ useProxy = [s \in Sources |-> FALSE]
    /\ held = [s \in Sources |-> NoProxy]
    /\ fresult = [s \in Sources |-> SigNone]
    /\ arrived = <<>>
    /\ consumed = 0
    /\ results = <<>>
    /\ rpc = "loop"
    /\ verdict = "none"
    /\ timedOut = FALSE
    /\ pyAlias \in BOOLEAN

(***************************************************************************)
(* Worker threads: _check_with_retry and _check                            *)
(***************************************************************************)
\* the future of s completes with result r
Complete(s, r) ==
    /\ fstate' = [fstate EXCEPT ![s] = "done"]
    /\ fresult' = [fresult EXCEPT ![s] = r]
    /\ arrived' = Append(arrived, s)

\* start of an attempt with egress choice up: _check up to the network call
BeginAttempt(s, up, ifNone, net) ==
    /\ useProxy' = [useProxy EXCEPT ![s] = up]
    /\ IF up
       THEN /\ proxies' = GetProxyRotate(proxies)
            /\ held' = [held EXCEPT ![s] = GetProxyResult(proxies)]
            /\ IF GetProxyResult(proxies) = NoProxy
               THEN ifNone
               ELSE /\ fstate' = [fstate EXCEPT ![s] = net]
                    /\ UNCHANGED <<fresult, arrived>>
       ELSE /\ held' = [held EXCEPT ![s] = NoProxy]
            /\ fstate' = [fstate EXCEPT ![s] = net]
            /\ UNCHANGED <<proxies, fresult, arrived>>

\* a worker picks the work item of s, draws use_proxy and starts attempt 1
StartFirst(s) ==
    /\ fstate[s] = "queued"
    /\ \E up \in BOOLEAN :
         BeginAttempt(s, up,
                      /\ fstate' = [fstate EXCEPT ![s] = "start2"]
                      /\ UNCHANGED <<fresult, arrived>>,
                      "net1")
    /\ UNCHANGED <<bad_proxies, consumed, results, rpc, verdict, timedOut>>
    /\ UNCHANGED <<scanVars, poolVars, pyAlias, healthVars, scraperVars>>

\* mutant: the retry always goes out directly
RetryEgress_Direct(up) == FALSE

\* mutant: the retry keeps the egress choice of the first attempt
RetryEgress_Same(up) == up

\* line 221: the egress choice of the retry
RetryEgress(up) == ~up

\* attempt 2 starts with the opposite egress choice
StartSecond(s) ==
    /\ fstate[s] = "start2"
    /\ BeginAttempt(s, RetryEgress(useProxy[s]), Complete(s, SigNone), "net2")
    /\ UNCHANGED <<bad_proxies, consumed, results, rpc, verdict, timedOut>>
    /\ UNCHANGED <<scanVars, poolVars, pyAlias, healthVars, scraperVars>>

\* the network call of the attempt in progress ends with outcome o
FinishAttempt(s, o) ==
    /\ fstate[s] \in {"net1", "net2"}
    /\ LET r == IF o = "raise" THEN SigNone ELSE o
           mark == held[s] # NoProxy /\ r = SigNone
       IN /\ IF mark
             THEN /\ proxies' = MarkBadProxies(proxies, held[s])
                  /\ bad_proxies' = MarkBadSet(bad_proxies, held[s])
             ELSE UNCHANGED <<proxies, bad_proxies>>
          /\ IF r # SigNone \/ fstate[s] = "net2"
             THEN Complete(s, r)
             ELSE /\ fstate' = [fstate EXCEPT ![s] = "start2"]
                  /\ UNCHANGED <<fresult, arrived>>
    /\ held' = [held EXCEPT ![s] = NoProxy]
    /\ UNCHANGED <<useProxy, consumed, results, rpc, verdict, timedOut>>
    /\ UNCHANGED <<scanVars, poolVars, pyAlias, healthVars, scraperVars>>

(***************************************************************************)
(* The calling thread: the result loop of check_domain                     *)
(***************************************************************************)
\* as_completed yields the next completed future
Consume ==
    /\ rpc = "loop"
    /\ consumed < Len(arrived)
    /\ LET s == arrived[consumed + 1]
           r == fresult[s]
       IN /\ consumed' = consumed + 1
          /\ IF r # SigNone
             THEN /\ results' = Append(results, r)
                  /\ verdict' = SignalVerdict(r)
                  /\ IF SignalVerdict(r) # "none"
                     THEN /\ fstate' = CancelQueued(fstate)
                          /\ rpc' = "exit_with"
                     ELSE UNCHANGED <<fstate, rpc>>
             ELSE UNCHANGED <<results, verdict, fstate, rpc>>
    /\ UNCHANGED <<proxies, bad_proxies, useProxy, held, fresult, arrived,
                   timedOut>>
    /\ UNCHANGED <<scanVars, poolVars, pyAlias, healthVars, scraperVars>>

\* as_completed(timeout=10) raises while futures are still pending
Deadline ==
    /\ rpc = "loop"
    /\ consumed = Len(arrived)
    /\ \E s \in Sources : ~Finished(s)
    /\ timedOut' = TRUE
    /\ rpc' = "exit_with"
    \* `except TimeoutError` runs the shutdown only where it catches
    /\ fstate' = IF pyAlias THEN CancelQueued(fstate) ELSE fstate
    /\ UNCHANGED <<proxies, bad_proxies, useProxy, held, fresult, arrived,
                   consumed, results, verdict>>
    /\ UNCHANGED <<scanVars, poolVars, pyAlias, healthVars, scraperVars>>

\* every future has been yielded: the loop ends, the `with` block is left
\* and the results are evaluated
LoopEnd ==
    /\ rpc = "loop"
    /\ consumed = NumSources
    /\ rpc' = "done"
    /\ verdict' = Evaluate(results)
    /\ UNCHANGED <<proxies, bad_proxies, fstate, useProxy, held, fresult,
                   arrived, consumed, results, timedOut>>
    /\ UNCHANGED <<scanVars, poolVars, pyAlias, healthVars, scraperVars>>

\* ThreadPoolExecutor.__exit__: shutdown(wait=True) joins the workers, then
\* the pending return / exception / evaluation takes effect
ExitWith ==
    /\ rpc = "exit_with"
    /\ Joined(fstate)
    /\ rpc' = "done"
    /\ verdict' = IF verdict # "none" THEN verdict
                  ELSE IF timedOut /\ ~pyAlias THEN "error"
                  ELSE Evaluate(results)
    /\ UNCHANGED <<proxies, bad_proxies, fstate, useProxy, held, fresult,
                   arrived, consumed, results, timedOut>>
    /\ UNCHANGED <<scanVars, poolVars, pyAlias, healthVars, scraperVars>>

(***************************************************************************)
(* DomainHunter: the keyspace                                              *)
(***************************************************************************)
\* length 3 is the first length scanned, a length above 6 wraps
MinLength == 3
MaxLength == 6
\* the scan loop saves the checkpoint when check_count % 100 == 0
SaveEvery == 100

\* bounds: len(PRIORITY_TLDS) is 19, len(string.ascii_lowercase) is 26 and
\* len(string.digits) is 10 in the source
NumTlds == 2
NLetters == 2
NDigits == 1
\* bounds on the explored behaviours
MaxSteps == 2
MaxFound == 1
MaxRestarts == 1
MaxCycles == 1

RECURSIVE Pow(_, _)
Pow(b, e) == IF e = 0 THEN 1 ELSE b * Pow(b, e - 1)

\* mutant: letters and digits at every length
AlphabetSize_WithDigits(len) == NLetters + NDigits

\* len(chars): letters only up to length 3, letters and digits above
AlphabetSize(len) == IF len <= 3 THEN NLetters ELSE NLetters + NDigits

\* len(list(itertools.product(chars, repeat=length))), for every length the
\* cursor can hold
ComboCounts == [len \in 0..(MaxLength + 1) |-> Pow(AlphabetSize(len), len)]

\* len(all_combos)
NumCombos(len) == ComboCounts[len]

\* all_combos[k]: the k-th tuple of itertools.product(chars, repeat=length),
\* as the sequence of the positions of its characters in chars
Combo(len, k) ==
    [j \in 1..len |-> (k \div Pow(AlphabetSize(len), len - j)) % AlphabetSize(len)]

\* f"{combo}.{tld}"
Domain(len, t, k) == <<Combo(len, k), t>>

(***************************************************************************)
(* DomainHunter: persistence                                               *)
(***************************************************************************)
\* a file is the sequence of the documents it holds: none if the file is
\* missing or holds zero bytes (load_state treats the two alike)
NoFile == <<>>

\* mutant: the fallback of load_state begins one length further
DefaultState_NextLength ==
    [current_length |-> MinLength + 1, current_tld_index |-> 0,
     current_combo_index |-> 0, total_checked |-> 0, total_found |-> 0]

\* the dictionary load_state returns when there is no readable checkpoint
DefaultState ==
    [current_length |-> MinLength, current_tld_index |-> 0,
     current_combo_index |-> 0, total_checked |-> 0, total_found |-> 0]

\* json.dump, line 989: a number is written as its decimal digits
RECURSIVE Digits(_)
Digits(n) == IF n < 10 THEN <<n>> ELSE Append(Digits(n \div 10), n % 10)

\* json.load, line 963: the digits are read back as a number
RECURSIVE Number(_)
Number(ds) ==
    IF Len(ds) = 1 THEN ds[1]
    ELSE 10 * Number(SubSeq(ds, 1, Len(ds) - 1)) + ds[Len(ds)]

\* json.dump, line 989: the document written for the dictionary st
JsonDump(st) ==
    [current_length |-> Digits(st.current_length),
     current_tld_index |-> Digits(st.current_tld_index),
     current_combo_index |-> Digits(st.current_combo_index),
     total_checked |-> Digits(st.total_checked),
     total_found |-> Digits(st.total_found)]

\* mutant: the count of a checkpoint is not read back
JsonLoad_DropsCount(doc) ==
    [current_length |-> Number(doc.current_length),
     current_tld_index |-> Number(doc.current_tld_index),
     current_combo_index |-> Number(doc.current_combo_index),
     total_checked |-> 0,
     total_found |-> Number(doc.total_found)]

\* json.load, line 963: the dictionary read from a document
JsonLoad(doc) ==
    [current_length |-> Number(doc.current_length),
     current_tld_index |-> Number(doc.current_tld_index),
     current_combo_index |-> Number(doc.current_combo_index),
     total_checked |-> Number(doc.total_checked),
     total_found |-> Number(doc.total_found)]

\* load_state
LoadState(file) == IF file = NoFile THEN DefaultState ELSE JsonLoad(file[1])

\* mutant: load_results starts every run from an empty list
LoadResults_Empty(file) == <<>>

\* load_results: the list returned
LoadResults(file) == file

\* save_state, line 982 .. 984: the dictionary after the counters are
\* stamped into it, which is also the document json.dump writes
SaveState(st, cc, fd) ==
    [st EXCEPT !.total_checked = cc, !.total_found = Len(fd)]

\* the threads that call save_state: the main thread (scan loop, finally
\* clause, shutdown handler) and the monitor thread
Savers == {"main", "mon"}

NoFds == [t \in Savers |-> "none"]
\* nothing is buffered
NoBuf == <<>>
NoBufs == [t \in Savers |-> NoBuf]

\* save_state, line 988: open(temp, 'w') creates the temp file or truncates
\* the one that is there; thread t then holds it open
OpenFds(fds, t) == [fds EXCEPT ![t] = "tmp"]

\* save_state, line 988 .. 989: leaving the `with` block flushes the
\* buffered document into the file the thread holds open, wherever a rename
\* has moved that file since
CloseInto(place, file, fds, bufs, t) ==
    IF fds[t] = place THEN <<bufs[t]>> ELSE file

\* save_state, line 990: os.replace moves the temp file over the checkpoint
\* file; the threads that hold either file open keep the file, not the path
ReplaceFds(fds) ==
    [t \in Savers |-> IF fds[t] = "tmp" THEN "state"
                      ELSE IF fds[t] = "state" THEN "orphan"
                      ELSE fds[t]]

\* save_results: the document that replaces the found-list file
SaveResults(fd) == fd

\* trigger_scrape, line 78 .. 79 (last_scrape is still 0: no scrape has
\* finished), given the flag and the size of the pool
TriggerScrape(sc, n) == sc \/ n < 30

Cursor(st) == <<st.current_length, st.current_tld_index, st.current_combo_index>>

(***************************************************************************)
(* DomainHunter: the steps of search_domains                               *)
(***************************************************************************)
\* mutant: the wrap restarts one length too high
WrapLength_OffByOne(st) == [st EXCEPT !.current_length = MinLength + 1]

\* line 1039 .. 1041: the wrap
WrapLength(st) == [st EXCEPT !.current_length = MinLength]
WrapTld(st) == [st EXCEPT !.current_tld_index = 0]
WrapCombo(st) == [st EXCEPT !.current_combo_index = 0]

\* line 1045 .. 1047: the move to the next length
RollLength(st) == [st EXCEPT !.current_length = @ + 1]
RollTld(st) == [st EXCEPT !.current_tld_index = 0]
RollCombo(st) == [st EXCEPT !.current_combo_index = 0]

\* line 1104, 1105: the move to the next TLD
NextTld(st) == [st EXCEPT !.current_tld_index = @ + 1]
NextCombo(st) == [st EXCEPT !.current_combo_index = 0]

\* line 1095
SetComboIndex(st, k) == [st EXCEPT !.current_combo_index = k]

\* mutant: the TLD index is not tested against the number of TLDs
WhileBranch_NoRoll(st) ==
    IF st.current_length > MaxLength THEN "wrap1" ELSE "for"

\* line 1037, 1044: where the body of `while self.running` goes
WhileBranch(st) ==
    IF st.current_length > MaxLength THEN "wrap1"
    ELSE IF st.current_tld_index >= NumTlds THEN "roll1"
    ELSE "for"

\* mutant: the price is asked whatever check_domain returned
StatusBranch_AlwaysPrice(v) == "price"

\* mutant: the `continue` after a rejected candidate is missing
DnsBranch_NoContinue(r) == "whois"

\* line 1067 .. 1072: where the loop body goes after dns_check returned r
DnsBranch(r) == IF r THEN "whois" ELSE "for"

\* line 1075 .. 1082: where the loop body goes after check_domain returned v
StatusBranch(v) == IF v = "available" THEN "price" ELSE "setidx"

\* line 1084 .. 1089
FoundRecord(len, t, k) == [domain |-> Domain(len, t, k), length |-> len]

\* the candidate after (len, t, k) in the traversal order
Succ(len, t, k) ==
    IF k + 1 < NumCombos(len) THEN <<len, t, k + 1>>
    ELSE IF t + 1 < NumTlds THEN <<len, t + 1, 0>>
    ELSE IF len + 1 <= MaxLength THEN <<len + 1, 0, 0>>
    ELSE <<MinLength, 0, 0>>

NoCand == <<0, 0, 0>>

\* positions of the main thread at which a SystemExit raised by the shutdown
\* handler can be swallowed by a bare `except:` (dns_check, and the result
\* loops of check_domain and check_price)
Swallowing == {"dns", "whois", "price"}

\* where the main thread goes on when a SystemExit is swallowed at pc:
\* dns_check returns True, the two result loops go on
SwallowedAt(pc) == IF pc = "dns" THEN "whois" ELSE pc

Stopped == {"exited", "crashed"}

\* positions of the main thread at which it is about to call save_state:
\* line 1099, line 1106, line 1133 and line 955
SaveSites == {"periodic", "next3", "finally", "handler"}

\* where the main thread goes on when the save_state called at site returns
AfterSave(site) ==
    IF site = "periodic" THEN "for"
    ELSE IF site = "next3" THEN "while"
    ELSE IF site = "finally" THEN "fin_results"
    ELSE "h_results"

\* the main thread is inside a call of save_state
InSave == {"sv_close", "sv_replace"}

(***************************************************************************)
(* Init of the scan: DomainHunter.__init__ over the files found on disk    *)
(***************************************************************************)
KeyspaceSize ==
    NumTlds * (NumCombos(3) + NumCombos(4) + NumCombos(5) + NumCombos(6))

Checkpoint(len, t, k, c) ==
    [current_length |-> len, current_tld_index |-> t,
     current_combo_index |-> k, total_checked |-> c, total_found |-> 0]

\* checkpoint files an earlier run can have left: none, one near the end of
\* the first TLD and near a periodic save, one at the end of the keyspace
InitStateFiles ==
    { NoFile,
      <<JsonDump(Checkpoint(MinLength, 0, NumCombos(MinLength) - 1, SaveEvery - 2))>>,
      <<JsonDump(Checkpoint(MaxLength, NumTlds - 1, NumCombos(MaxLength) - 1,
                            KeyspaceSize))>> }

FreshHist(st, known) ==
    [expectNext |-> IF known THEN Cursor(st) ELSE NoCand,
     firstAfterLoad |-> TRUE, loadedFresh |-> FALSE,
     iterDns |-> "none", iterWhois |-> FALSE, iterPrice |-> FALSE,
     iterCount0 |-> 0, iterFound0 |-> 0,
     iterStatus |-> "none", iterPriceRet |-> "none", iterCand |-> NoCand,
     stopped |-> <<>>,
     justWrapped |-> FALSE, everWrapped |-> FALSE, failed |-> <<>>]

InitScan ==
    /\ stateFile \in InitStateFiles
    /\ tmpExists = FALSE
    /\ tmpFile = NoFile
    /\ fdAt = NoFds
    /\ buf = NoBufs
    /\ opc = "idle"
    /\ msite = "none"
    /\ hret = "none"
    /\ scraping = FALSE
    /\ resultsFile = <<>>
    /\ state = LoadState(stateFile)
    /\ found_domains = LoadResults(resultsFile)
    /\ check_count = state.total_checked
    /\ running = TRUE
    /\ mpc = "while"
    /\ length = 0
    /\ tld = 0
    /\ i = 0
    /\ monitorAlive = TRUE
    /\ signalled = FALSE
    /\ restarts = 0
    /\ steps = 0
    /\ cycles = 0
    /\ hist = FreshHist(state, stateFile = NoFile)

\* the scan is not running in the specification of a round
ScanQuiet ==
    /\ stateFile = NoFile
    /\ tmpExists = FALSE
    /\ tmpFile = NoFile
    /\ fdAt = NoFds
    /\ buf = NoBufs
    /\ opc = "idle"
    /\ msite = "none"
    /\ hret = "none"
    /\ resultsFile = <<>>
    /\ state = DefaultState
    /\ found_domains = <<>>
    /\ check_count = 0
    /\ running = TRUE
    /\ mpc = "whois"
    /\ length = MinLength
    /\ tld = 0
    /\ i = 0
    /\ monitorAlive = TRUE
    /\ signalled = FALSE
    /\ restarts = 0
    /\ steps = 0
    /\ cycles = 0
    /\ hist = FreshHist(DefaultState, TRUE)

ScanIdle == ScanQuiet /\ scraping = FALSE

\* no round is modelled in detail in the specification of the scan
RoundQuiet ==
    /\ fstate = [s \in Sources |-> "done"]
    /\ useProxy = [s \in Sources |-> FALSE]
    /\ held = [s \in Sources |-> NoProxy]
    /\ fresult = [s \in Sources |-> SigNone]
    /\ arrived = <<>>
    /\ consumed = 0
    /\ results = <<>>
    /\ rpc = "done"
    /\ verdict = "none"
    /\ timedOut = FALSE

RoundIdle == RoundQuiet /\ proxies = <<>> /\ bad_proxies = {}


(***************************************************************************)
(* ProxyManager: the tester thread, discovery, and the callers of          *)
(* get_proxy / mark_bad / trigger_scrape, statement by statement           *)
(***************************************************************************)
\* line 54: deque(maxlen=100)
DequeMax == 100
\* line 116: the tester admits nothing while the pool holds this many
PoolTarget == 50
\* line 123, 943: below this size the tester and the monitor call
\* trigger_scrape
TesterLow == 20
\* line 78: trigger_scrape starts discovery only below this size
ScrapeBelow == 30

\* calls of get_proxy, by the workers of check_domain and check_price, each
\* followed by the query through the address and, if that fails, mark_bad
NumCallers == 1
\* addresses discovery can find, and addresses waiting in proxy_queue
NumNew == 1

\* threads that call get_proxy at the same time on a small pool
NumGetters == 2

Callers == 1..NumCallers
Getters == 1..NumGetters
AllCallers == Callers \cup Getters
Feed == (PoolTarget + 1)..(PoolTarget + NumNew)

\* who calls trigger_scrape: _tester (line 124), _monitor (line 944), the
\* start-up timer (line 910)
Triggers == {"tester", "monitor", "timer"}

\* what the probe of line 130 yields: a status code, or an exception
ProbeStatuses == {"200", "503", "raise"}

\* deque.append on a deque with maxlen
DequeAppend(ps, p) ==
    IF Len(ps) >= DequeMax THEN Append(Tail(ps), p) ELSE Append(ps, p)

\* line 78: the condition of trigger_scrape
TriggerGuard(due, sc, n) == due /\ ~sc /\ n < ScrapeBelow

\* mutant: the tester admits whatever the probe answered
ProbeOk_Any(status) == TRUE

\* line 133: the probe answered with status 200
ProbeOk(status) == status = "200"

\* the orders in which `for p in found` can go through a set
Orders(S) ==
    {q \in [1..Cardinality(S) -> S] :
        \A a, b \in 1..Cardinality(S) : a # b => q[a] # q[b]}

\* history: no query has failed so far
NoFailures == [p \in {} |-> 0]

\* history: one more failed query through address p
OneMore(f, p) ==
    [q \in DOMAIN f \cup {p} |->
        IF q # p THEN f[q]
        ELSE IF p \notin DOMAIN f THEN 1 ELSE 2]

\* a pool at its target size, every address of it admitted by the tester,
\* and what discovery had found beyond it still waiting in the queue
FullPool == [k \in 1..PoolTarget |-> k]
Leftover == <<PoolTarget + 1>>

\* ProxyManager.__init__ and the timer of DomainHunter.__init__ (empty
\* pool), or a manager whose tester has filled the pool
InitPool ==
    /\ \E full \in BOOLEAN :
         /\ proxies = IF full THEN FullPool ELSE <<>>
         /\ proxy_queue = IF full THEN Leftover ELSE <<>>
         /\ scrapeDue = ~full
         /\ gpc = [g \in Triggers |->
                      IF g = "timer" /\ ~full THEN "call" ELSE "idle"]
    /\ bad_proxies = {}
    /\ scraping = FALSE
    /\ inflight = 0
    /\ tpc = "top"
    /\ tproxy = NoProxy
    /\ cpc = [c \in AllCallers |-> "idle"]
    /\ cheld = [c \in AllCallers |-> NoProxy]
    /\ probed = {proxies[k] : k \in 1..Len(proxies)}
    /\ failures = NoFailures

\* the threads of the pool are not modelled in the specifications of a
\* round and of the scan
PoolIdle ==
    /\ proxy_queue = <<>>
    /\ scrapeDue = TRUE
    /\ inflight = 0
    /\ tpc = "top"
    /\ tproxy = NoProxy
    /\ cpc = [c \in AllCallers |-> "idle"]
    /\ cheld = [c \in AllCallers |-> NoProxy]
    /\ gpc = [g \in Triggers |-> "idle"]
    /\ probed = {}
    /\ failures = NoFailures

\* what no step of the pool touches
poolRest == <<roundRest, scanRest, pyAlias, healthVars, scraperVars>>

\* line 116 .. 128: the head of the tester loop. At or above the target it
\* sleeps and comes back here. Below it, it takes the next address of the
\* queue and drops it if it is reported bad; on Empty it calls
\* trigger_scrape if the pool is short, and stands before line 79 if the
\* condition of line 78 holds
TesterTake ==
    /\ tpc = "top"
    /\ Len(proxies) < PoolTarget
    /\ IF proxy_queue # <<>>
       THEN /\ proxy_queue' = Tail(proxy_queue)
            /\ IF Head(proxy_queue) \notin bad_proxies
               THEN /\ tproxy' = Head(proxy_queue)
                    /\ tpc' = "probe"
               ELSE UNCHANGED <<tproxy, tpc>>
       ELSE /\ Len(proxies) < TesterLow
            /\ TriggerGuard(scrapeDue, scraping, Len(proxies))
            /\ tpc' = "passed"
            /\ UNCHANGED <<tproxy, proxy_queue>>
    /\ UNCHANGED <<proxies, bad_proxies, scraping, scrapeDue, inflight, cpc,
                   cheld, gpc, probed>>
    /\ UNCHANGED <<failures, poolRest>>

\* line 129 .. 133, 135: the probe through the address, and the condition
\* of line 133
TesterProbe(status) ==
    /\ tpc = "probe"
    /\ probed' = IF status = "200" THEN probed \cup {tproxy} ELSE probed
    /\ IF ProbeOk(status) /\ ~InSeq(proxies, tproxy)
       THEN /\ tpc' = "append"
            /\ UNCHANGED tproxy
       ELSE /\ tpc' = "top"
            /\ tproxy' = NoProxy
    /\ UNCHANGED <<proxies, bad_proxies, scraping, proxy_queue, scrapeDue,
                   inflight, cpc, cheld, gpc>>
    /\ UNCHANGED <<failures, poolRest>>

\* line 134
TesterAppend ==
    /\ tpc = "append"
    /\ proxies' = DequeAppend(proxies, tproxy)
    /\ tpc' = "top"
    /\ tproxy' = NoProxy
    /\ UNCHANGED <<bad_proxies, scraping, proxy_queue, scrapeDue, inflight,
                   cpc, cheld, gpc, probed>>
    /\ UNCHANGED <<failures, poolRest>>

\* line 78: the monitor (line 943, 944: when the pool is short) or the
\* start-up timer (line 910: once) calls trigger_scrape and evaluates its
\* condition
TriggerCheck(g) ==
    /\ IF g = "monitor"
       THEN gpc[g] = "idle" /\ Len(proxies) < TesterLow
       ELSE gpc[g] = "call"
    /\ gpc' = [gpc EXCEPT ![g] =
                 IF TriggerGuard(scrapeDue, scraping, Len(proxies))
                 THEN "passed" ELSE "idle"]
    /\ gpc' # gpc
    /\ UNCHANGED <<proxies, bad_proxies, scraping, proxy_queue, scrapeDue,
                   inflight, tpc, tproxy, cpc, cheld, probed>>
    /\ UNCHANGED <<failures, poolRest>>

\* line 79, 80: caller g sets the flag and starts a _scrape thread
TriggerSet(g) ==
    /\ IF g = "tester" THEN tpc = "passed" ELSE gpc[g] = "passed"
    /\ scraping' = TRUE
    /\ inflight' = inflight + 1
    /\ IF g = "tester"
       THEN tpc' = "top" /\ UNCHANGED gpc
       ELSE gpc' = [gpc EXCEPT ![g] = "idle"] /\ UNCHANGED tpc
    /\ UNCHANGED <<proxies, bad_proxies, proxy_queue, scrapeDue, tproxy, cpc,
                   cheld, probed>>
    /\ UNCHANGED <<failures, poolRest>>

\* line 82 .. 111: a _scrape thread runs to its end: what it found and is
\* not reported bad is queued in the order ord
ScrapeRun(found, ord) ==
    /\ inflight > 0
    /\ ord \in Orders(found \ bad_proxies)
    /\ Len(proxy_queue) + Len(ord) <= NumNew
    /\ proxy_queue' = proxy_queue \o ord
    /\ scrapeDue' = FALSE
    /\ scraping' = FALSE
    /\ inflight' = inflight - 1
    /\ UNCHANGED <<proxies, bad_proxies, tpc, tproxy, cpc, cheld, gpc, probed>>
    /\ UNCHANGED <<failures, poolRest>>

\* more than 3600 s have gone by since last_scrape (a _scrape thread lasts
\* 20 s at most)
HourPasses ==
    /\ ~scrapeDue
    /\ inflight = 0
    /\ scrapeDue' = TRUE
    /\ UNCHANGED <<proxies, bad_proxies, scraping, proxy_queue, inflight, tpc,
                   tproxy, cpc, cheld, gpc, probed>>
    /\ UNCHANGED <<failures, poolRest>>

\* line 66, 70: get_proxy tests `if self.proxies` and returns None on an
\* empty pool (the calls are numbered in the order in which they begin)
CallerCheck(c) ==
    /\ cpc[c] = "idle"
    /\ \A d \in 1..(c - 1) : cpc[d] # "idle"
    /\ cpc' = [cpc EXCEPT ![c] = IF proxies # <<>> THEN "checked" ELSE "done"]
    /\ UNCHANGED <<proxies, bad_proxies, scraping, proxy_queue, scrapeDue,
                   inflight, tpc, tproxy, cheld, gpc, probed>>
    /\ UNCHANGED <<failures, poolRest>>

\* line 67: popleft takes the head of the pool; on a pool that has been
\* emptied since the test of line 66 it raises IndexError, which leaves
\* get_proxy and, from line 232, _check and _check_with_retry
CallerPop(c) ==
    /\ cpc[c] = "checked"
    /\ IF proxies # <<>>
       THEN /\ cheld' = [cheld EXCEPT ![c] = Head(proxies)]
            /\ proxies' = Tail(proxies)
            /\ cpc' = [cpc EXCEPT ![c] = "popped"]
       ELSE /\ cpc' = [cpc EXCEPT ![c] = "raised"]
            /\ UNCHANGED <<cheld, proxies>>
    /\ UNCHANGED <<bad_proxies, scraping, proxy_queue, scrapeDue, inflight,
                   tpc, tproxy, gpc, probed>>
    /\ UNCHANGED <<failures, poolRest>>

\* line 68, 69: get_proxy puts it back at the tail and returns it
CallerAppend(c) ==
    /\ cpc[c] = "popped"
    /\ proxies' = DequeAppend(proxies, cheld[c])
    /\ cpc' = [cpc EXCEPT ![c] = "holding"]
    /\ UNCHANGED <<bad_proxies, scraping, proxy_queue, scrapeDue, inflight,
                   tpc, tproxy, cheld, gpc, probed>>
    /\ UNCHANGED <<failures, poolRest>>

\* line 73: where mark_bad, called from `site` ("t": line 241, in the try
\* block; "e": line 246, in the except clause), stands after its test
AfterMarkTest(ps, p, site) ==
    IF InSeq(ps, p) THEN (IF site = "t" THEN "t_remove" ELSE "e_remove")
    ELSE (IF site = "t" THEN "t_add" ELSE "e_add")

\* line 238 .. 246, 73: the query through the address returns a result,
\* returns None (mark_bad is called at line 241) or raises (mark_bad at
\* line 246); mark_bad tests `proxy in self.proxies`
CallerQuery(c, o) ==
    /\ cpc[c] = "holding"
    /\ cpc' = [cpc EXCEPT ![c] =
                 CASE o = "ok" -> "done"
                   [] o = "none" -> AfterMarkTest(proxies, cheld[c], "t")
                   [] o = "raise" -> AfterMarkTest(proxies, cheld[c], "e")]
    /\ cheld' = IF o = "ok" THEN [cheld EXCEPT ![c] = NoProxy] ELSE cheld
    /\ failures' = IF o = "ok" THEN failures ELSE OneMore(failures, cheld[c])
    /\ UNCHANGED <<proxies, bad_proxies, scraping, proxy_queue, scrapeDue,
                   inflight, tpc, tproxy, gpc, probed>>
    /\ UNCHANGED poolRest

\* line 74: deque.remove takes out the first occurrence; if the address has
\* gone meanwhile it raises ValueError, which line 244 catches (mark_bad is
\* called again at line 246) or, raised from line 246, ends the attempt
MarkRemove(c) ==
    /\ cpc[c] \in {"t_remove", "e_remove"}
    /\ IF InSeq(proxies, cheld[c])
       THEN /\ proxies' = RemoveFirst(proxies, cheld[c])
            /\ cpc' = [cpc EXCEPT ![c] =
                         IF cpc[c] = "t_remove" THEN "t_add" ELSE "e_add"]
            /\ UNCHANGED cheld
       ELSE /\ UNCHANGED proxies
            /\ cpc' = [cpc EXCEPT ![c] =
                         IF cpc[c] = "t_remove" THEN "e_add" ELSE "done"]
            /\ cheld' = IF cpc[c] = "t_remove" THEN cheld
                        ELSE [cheld EXCEPT ![c] = NoProxy]
    /\ UNCHANGED <<bad_proxies, scraping, proxy_queue, scrapeDue, inflight,
                   tpc, tproxy, gpc, probed>>
    /\ UNCHANGED <<failures, poolRest>>

\* line 75
MarkAdd(c) ==
    /\ cpc[c] \in {"t_add", "e_add"}
    /\ bad_proxies' = MarkBadSet(bad_proxies, cheld[c])
    /\ cpc' = [cpc EXCEPT ![c] = "done"]
    /\ cheld' = [cheld EXCEPT ![c] = NoProxy]
    /\ UNCHANGED <<proxies, scraping, proxy_queue, scrapeDue, inflight, tpc,
                   tproxy, gpc, probed>>
    /\ UNCHANGED <<failures, poolRest>>

(***************************************************************************)
(* DomainHunter: the main thread (run, search_domains)                     *)
(***************************************************************************)
\* what a plain step of the scan loop leaves alone: the files of the
\* checkpoint, the monitor thread, the signal
otherVars == <<fileVars, monitorAlive, signalled, restarts, opc, msite, hret,
               scraping, cycles>>

\* history: the loop body has finished with candidate (len, t, k)
HIterDone(h, len, t, k) ==
    [h EXCEPT !.expectNext = Succ(len, t, k), !.firstAfterLoad = FALSE,
              !.justWrapped = FALSE]

\* history: the process stops with st, cc, fd in memory and `file` as its
\* checkpoint; what the next run loads is exactly what was in memory (the
\* dictionary that was written is kept until the loop of that run begins)
HStopped(h, file, st, cc, fd) ==
    LET saved == SaveState(st, cc, fd)
        fresh == file # NoFile /\ file = <<JsonDump(saved)>>
    IN  [FreshHist(DefaultState, TRUE)
           EXCEPT !.expectNext = h.expectNext,
                  !.loadedFresh = fresh,
                  !.stopped = IF fresh THEN <<saved>> ELSE <<>>]

\* line 1034 .. 1056: the head of `while self.running`
WhileTop ==
    /\ mpc = "while"
    /\ IF ~running
       THEN /\ mpc' = "finally"
            /\ UNCHANGED <<length, tld, i>>
       ELSE /\ length' = state.current_length
            /\ mpc' = WhileBranch(state)
            /\ IF WhileBranch(state) = "for"
               THEN /\ tld' = state.current_tld_index
                    /\ i' = state.current_combo_index
               ELSE UNCHANGED <<tld, i>>
    /\ hist' = [hist EXCEPT !.stopped = <<>>]
    /\ UNCHANGED <<state, check_count, found_domains, running, resultsFile,
                   steps, otherVars>>
    /\ UNCHANGED <<roundVars, poolVars, pyAlias, healthVars, scraperVars>>

\* line 1039
Wrap1 ==
    /\ mpc = "wrap1"
    /\ state' = WrapLength(state)
    /\ mpc' = "wrap2"
    /\ hist' = [hist EXCEPT !.everWrapped = TRUE]
    /\ UNCHANGED <<check_count, found_domains, running, resultsFile,
                   length, tld, i, steps, otherVars>>
    /\ UNCHANGED <<roundVars, poolVars, pyAlias, healthVars, scraperVars>>

\* line 1040
Wrap2 ==
    /\ mpc = "wrap2"
    /\ state' = WrapTld(state)
    /\ mpc' = "wrap3"
    /\ UNCHANGED <<check_count, found_domains, running, resultsFile,
                   length, tld, i, steps, hist, otherVars>>
    /\ UNCHANGED <<roundVars, poolVars, pyAlias, healthVars, scraperVars>>

\* line 1041, 1042
Wrap3 ==
    /\ mpc = "wrap3"
    /\ state' = WrapCombo(state)
    /\ mpc' = "while"
    /\ hist' = [hist EXCEPT !.justWrapped = TRUE]
    /\ UNCHANGED <<check_count, found_domains, running, resultsFile,
                   length, tld, i, steps, otherVars>>
    /\ UNCHANGED <<roundVars, poolVars, pyAlias, healthVars, scraperVars>>

\* line 1045
Roll1 ==
    /\ mpc = "roll1"
    /\ state' = RollLength(state)
    /\ mpc' = "roll2"
    /\ UNCHANGED <<check_count, found_domains, running, resultsFile,
                   length, tld, i, steps, hist, otherVars>>
    /\ UNCHANGED <<roundVars, poolVars, pyAlias, healthVars, scraperVars>>

\* line 1046
Roll2 ==
    /\ mpc = "roll2"
    /\ state' = RollTld(state)
    /\ mpc' = "roll3"
    /\ UNCHANGED <<check_count, found_domains, running, resultsFile,
                   length, tld, i, steps, hist, otherVars>>
    /\ UNCHANGED <<roundVars, poolVars, pyAlias, healthVars, scraperVars>>

\* line 1047 .. 1049
Roll3 ==
    /\ mpc = "roll3"
    /\ state' = RollCombo(state)
    /\ mpc' = "while"
    /\ UNCHANGED <<check_count, found_domains, running, resultsFile,
                   length, tld, i, steps, hist, otherVars>>
    /\ UNCHANGED <<roundVars, poolVars, pyAlias, healthVars, scraperVars>>

\* line 1058 .. 1064: the head of the per-TLD loop; it forms the candidate
ForTop ==
    /\ mpc = "for"
    /\ IF i >= NumCombos(length) \/ ~running
       THEN /\ mpc' = "next1"
            /\ UNCHANGED <<steps, hist>>
       ELSE /\ steps < MaxSteps
            /\ mpc' = "dns"
            /\ steps' = steps + 1
            /\ hist' = [hist EXCEPT !.iterDns = "none", !.iterWhois = FALSE,
                                    !.iterPrice = FALSE,
                                    !.iterStatus = "none",
                                    !.iterPriceRet = "none",
                                    !.iterCand = <<length, tld, i>>,
                                    !.iterCount0 = check_count,
                                    !.iterFound0 = Len(found_domains)]
    /\ UNCHANGED <<state, check_count, found_domains, running, resultsFile,
                   length, tld, i, otherVars>>
    /\ UNCHANGED <<roundVars, poolVars, pyAlias, healthVars, scraperVars>>

\* line 1067 .. 1069: dns_check returns r (False: the name resolves)
DnsCheck(r) ==
    /\ mpc = "dns"
    /\ mpc' = DnsBranch(r)
    /\ IF DnsBranch(r) = "for"
       THEN /\ check_count' = check_count + 1
            /\ i' = i + 1
            /\ hist' = [HIterDone(hist, length, tld, i) EXCEPT !.iterDns = "False"]
       ELSE /\ hist' = [hist EXCEPT !.iterDns = IF r THEN "True" ELSE "False"]
            /\ UNCHANGED <<check_count, i>>
    /\ UNCHANGED <<state, found_domains, running, resultsFile,
                   length, tld, steps, otherVars>>
    /\ UNCHANGED <<roundVars, poolVars, pyAlias, healthVars, scraperVars>>

\* what check_domain and check_price can do to their caller: return, or let
\* the timeout of as_completed escape where `except TimeoutError` misses it
CallOutcomes(rets) == IF pyAlias THEN rets ELSE rets \cup {"error"}

\* line 1072 .. 1075: check_domain returns v or raises
WhoisCheck(v) ==
    /\ mpc = "whois"
    /\ hist' = [hist EXCEPT !.iterWhois = TRUE, !.iterStatus = v]
    /\ IF v = "error"
       THEN /\ mpc' = "finally"
            /\ UNCHANGED check_count
       ELSE /\ mpc' = StatusBranch(v)
            /\ check_count' = check_count + 1
    /\ UNCHANGED <<state, found_domains, running, resultsFile,
                   length, tld, i, steps, otherVars>>
    /\ UNCHANGED <<roundVars, poolVars, pyAlias, healthVars, scraperVars>>

\* line 1078 .. 1090: check_price returns p or raises
PriceCheck(p) ==
    /\ mpc = "price"
    /\ IF p = "error"
       THEN /\ mpc' = "finally"
            /\ hist' = [hist EXCEPT !.iterPrice = TRUE, !.iterPriceRet = p]
            /\ UNCHANGED <<found_domains, i>>
       ELSE IF p = "premium"
       THEN /\ mpc' = "for"
            /\ i' = i + 1
            /\ hist' = [HIterDone(hist, length, tld, i)
                           EXCEPT !.iterPrice = TRUE, !.iterPriceRet = p]
            /\ UNCHANGED found_domains
       ELSE /\ Len(found_domains) < MaxFound
            /\ found_domains' = Append(found_domains, FoundRecord(length, tld, i))
            /\ mpc' = "saveres"
            /\ hist' = [hist EXCEPT !.iterPrice = TRUE, !.iterPriceRet = p]
            /\ UNCHANGED i
    /\ UNCHANGED <<state, check_count, running, resultsFile,
                   length, tld, steps, otherVars>>
    /\ UNCHANGED <<roundVars, poolVars, pyAlias, healthVars, scraperVars>>

\* line 1092, 1093
SaveRes ==
    /\ mpc = "saveres"
    /\ resultsFile' = SaveResults(found_domains)
    /\ mpc' = "setidx"
    /\ UNCHANGED <<state, check_count, found_domains, running,
                   length, tld, i, steps, hist, otherVars>>
    /\ UNCHANGED <<roundVars, poolVars, pyAlias, healthVars, scraperVars>>

\* line 1095 .. 1098: the cursor is set; every 100 checks save_state is due
SetIdx ==
    /\ mpc = "setidx"
    /\ state' = SetComboIndex(state, i)
    /\ hist' = HIterDone(hist, length, tld, i)
    /\ i' = i + 1
    /\ mpc' = IF check_count % SaveEvery = 0 THEN "periodic" ELSE "for"
    /\ UNCHANGED <<check_count, found_domains, running, resultsFile,
                   length, tld, steps, otherVars>>
    /\ UNCHANGED <<roundVars, poolVars, pyAlias, healthVars, scraperVars>>

\* line 1104
Next1 ==
    /\ mpc = "next1"
    /\ state' = NextTld(state)
    /\ mpc' = "next2"
    /\ UNCHANGED <<check_count, found_domains, running, resultsFile,
                   length, tld, i, steps, hist, otherVars>>
    /\ UNCHANGED <<roundVars, poolVars, pyAlias, healthVars, scraperVars>>

\* line 1105
Next2 ==
    /\ mpc = "next2"
    /\ state' = NextCombo(state)
    /\ mpc' = "next3"
    /\ UNCHANGED <<check_count, found_domains, running, resultsFile,
                   length, tld, i, steps, hist, otherVars>>
    /\ UNCHANGED <<roundVars, poolVars, pyAlias, healthVars, scraperVars>>

(***************************************************************************)
(* DomainHunter.save_state, step by step, by thread t                      *)
(***************************************************************************)
\* line 982 .. 989: the counters are stamped, the temp file is opened (and
\* emptied if it was there) and the document is buffered
OpenBy(t) ==
    /\ state' = SaveState(state, check_count, found_domains)
    /\ tmpExists' = TRUE
    /\ tmpFile' = NoFile
    /\ fdAt' = OpenFds(fdAt, t)
    /\ buf' = [buf EXCEPT ![t] = JsonDump(state')]
    /\ UNCHANGED stateFile

\* line 988 .. 989: the `with` block is left and the document reaches the
\* file the thread holds open
CloseBy(t) ==
    /\ tmpFile' = CloseInto("tmp", tmpFile, fdAt, buf, t)
    /\ stateFile' = CloseInto("state", stateFile, fdAt, buf, t)
    /\ fdAt' = [fdAt EXCEPT ![t] = "none"]
    /\ buf' = [buf EXCEPT ![t] = NoBuf]
    /\ UNCHANGED <<state, tmpExists>>

\* line 990 .. 992: os.replace; without a temp file it raises and the
\* `except Exception` of save_state absorbs that
ReplaceBy(t) ==
    /\ IF tmpExists
       THEN /\ stateFile' = tmpFile
            /\ tmpExists' = FALSE
            /\ tmpFile' = NoFile
            /\ fdAt' = ReplaceFds(fdAt)
       ELSE UNCHANGED <<stateFile, tmpExists, tmpFile, fdAt>>
    /\ UNCHANGED <<state, buf>>

\* the main thread calls save_state (line 1099, 1106, 1133 or 955)
SaveOpen ==
    /\ mpc \in SaveSites
    /\ OpenBy("main")
    /\ msite' = mpc
    /\ mpc' = "sv_close"
    /\ UNCHANGED <<cycles, hist, check_count, found_domains, running, resultsFile, length,
                   tld, i, steps, monitorAlive, signalled, restarts, opc, hret,
                   scraping>>
    /\ UNCHANGED <<roundVars, poolVars, pyAlias, healthVars, scraperVars>>

SaveClose ==
    /\ mpc = "sv_close"
    /\ CloseBy("main")
    /\ mpc' = "sv_replace"
    /\ UNCHANGED <<cycles, hist, check_count, found_domains, running, resultsFile, length,
                   tld, i, steps, monitorAlive, signalled, restarts, opc, msite,
                   hret, scraping>>
    /\ UNCHANGED <<roundVars, poolVars, pyAlias, healthVars, scraperVars>>

SaveReplace ==
    /\ mpc = "sv_replace"
    /\ ReplaceBy("main")
    /\ mpc' = AfterSave(msite)
    /\ msite' = "none"
    /\ UNCHANGED <<cycles, hist, check_count, found_domains, running, resultsFile, length,
                   tld, i, steps, monitorAlive, signalled, restarts, opc, hret,
                   scraping>>
    /\ UNCHANGED <<roundVars, poolVars, pyAlias, healthVars, scraperVars>>

\* mutant: a failed write escapes save_state and ends search_domains
AfterFailedSave_Raises(site) == "finally"

\* line 991, 992: `except Exception` logs the failure and save_state
\* returns to its caller
AfterFailedSave(site) == AfterSave(site)

\* line 982 .. 988, 991: the counters are stamped, then open(temp, 'w')
\* raises OSError (history: the document that was not written)
SaveOpenFails ==
    /\ mpc \in SaveSites
    /\ state' = SaveState(state, check_count, found_domains)
    /\ mpc' = AfterFailedSave(mpc)
    /\ hist' = [hist EXCEPT !.failed = <<state'>>]
    /\ UNCHANGED <<cycles, check_count, found_domains, running, fileVars,
                   resultsFile, length, tld, i, steps, monitorAlive, signalled,
                   restarts, opc, msite, hret, scraping>>
    /\ UNCHANGED <<roundVars, poolVars, pyAlias, healthVars, scraperVars>>

\* line 989, 991: json.dump or the flush at the end of the `with` block
\* raises OSError; the file the thread held open is closed with part of the
\* document in it
SaveWriteFails ==
    /\ mpc = "sv_close"
    /\ tmpFile' = IF fdAt["main"] = "tmp" THEN NoFile ELSE tmpFile
    /\ stateFile' = IF fdAt["main"] = "state" THEN NoFile ELSE stateFile
    /\ fdAt' = [fdAt EXCEPT !["main"] = "none"]
    /\ buf' = [buf EXCEPT !["main"] = NoBuf]
    /\ mpc' = AfterFailedSave(msite)
    /\ msite' = "none"
    /\ hist' = [hist EXCEPT !.failed = <<state>>]
    /\ UNCHANGED <<cycles, state, check_count, found_domains, running,
                   tmpExists, resultsFile, length, tld, i, steps, monitorAlive,
                   signalled, restarts, opc, hret, scraping>>
    /\ UNCHANGED <<roundVars, poolVars, pyAlias, healthVars, scraperVars>>

\* line 1134, 1135: the finally clause of run saves the found list, and
\* the process exits: its memory, and what the monitor thread had
\* buffered, is gone
FinResults ==
    /\ mpc = "fin_results"
    /\ resultsFile' = SaveResults(found_domains)
    /\ mpc' = "exited"
    /\ state' = DefaultState
    /\ check_count' = 0
    /\ found_domains' = <<>>
    /\ monitorAlive' = FALSE
    /\ signalled' = FALSE
    /\ scraping' = FALSE
    /\ length' = 0
    /\ tld' = 0
    /\ i' = 0
    /\ opc' = "idle"
    /\ fdAt' = NoFds
    /\ buf' = NoBufs
    /\ hist' = HStopped(hist, stateFile, state, check_count, found_domains)
    /\ running' = FALSE
    /\ UNCHANGED <<stateFile, tmpExists, tmpFile, steps, cycles,
                   restarts, msite, hret>>
    /\ UNCHANGED <<roundVars, poolVars, pyAlias, healthVars, scraperVars>>

(***************************************************************************)
(* DomainHunter: the monitor thread and the shutdown handler               *)
(***************************************************************************)
\* line 924 .. 946: a cycle of _monitor begins: trigger_scrape if the pool
\* is short, then save_state up to its open
MonitorOpen ==
    /\ monitorAlive
    /\ opc = "idle"
    /\ mpc \notin Stopped
    /\ cycles < MaxCycles
    /\ cycles' = cycles + 1
    /\ scraping' = IF Len(proxies) < 20
                   THEN TriggerScrape(scraping, Len(proxies)) ELSE scraping
    /\ OpenBy("mon")
    /\ opc' = "close"
    /\ UNCHANGED <<hist, check_count, found_domains, running, resultsFile, mpc,
                   length, tld, i, steps, monitorAlive, signalled, restarts,
                   msite, hret>>
    /\ UNCHANGED <<roundVars, poolVars, pyAlias, healthVars, scraperVars>>

MonitorClose ==
    /\ opc = "close"
    /\ mpc \notin Stopped
    /\ CloseBy("mon")
    /\ opc' = "replace"
    /\ UNCHANGED <<cycles, hist, check_count, found_domains, running, resultsFile, mpc,
                   length, tld, i, steps, monitorAlive, signalled, restarts,
                   msite, hret, scraping>>
    /\ UNCHANGED <<roundVars, poolVars, pyAlias, healthVars, scraperVars>>

\* line 946 .. 950, 924: the cycle ends; the loop is left once running is
\* false
MonitorReplace ==
    /\ opc = "replace"
    /\ mpc \notin Stopped
    /\ ReplaceBy("mon")
    /\ opc' = "idle"
    /\ monitorAlive' = running
    /\ UNCHANGED <<cycles, hist, check_count, found_domains, running, resultsFile, mpc,
                   length, tld, i, steps, signalled, restarts, msite, hret,
                   scraping>>
    /\ UNCHANGED <<roundVars, poolVars, pyAlias, healthVars, scraperVars>>

\* where the SystemExit of the handler can leave the main thread that was
\* at pc: in the finally clause of run, or on its way if a bare `except:`
\* swallowed it
HandlerTargets(pc) ==
    IF pc \in Swallowing THEN {"finally", SwallowedAt(pc)} ELSE {"finally"}

\* line 952 .. 954: SIGTERM / SIGINT is handled in the main thread, wherever
\* it stands. A save_state it was in is abandoned: the document that one
\* had buffered is the one the handler writes. (Stops are explored in every
\* run but the last.)
Shutdown ==
    /\ ~signalled
    /\ restarts < MaxRestarts
    /\ mpc \notin Stopped \cup {"finally", "fin_results"}
    /\ ~(mpc \in InSave /\ msite = "finally")
    /\ signalled' = TRUE
    /\ running' = FALSE
    /\ \E target \in HandlerTargets(mpc) :
         /\ hret' = target
         /\ hist' = IF mpc = "dns" /\ target # "finally"
                    THEN [hist EXCEPT !.iterDns = "True"]
                    ELSE hist
    /\ mpc' = "handler"
    /\ fdAt' = [fdAt EXCEPT !["main"] = "none"]
    /\ buf' = [buf EXCEPT !["main"] = NoBuf]
    /\ UNCHANGED <<cycles, state, check_count, found_domains, stateFile, tmpExists,
                   tmpFile, resultsFile, length, tld, i, steps, monitorAlive,
                   restarts, opc, msite, scraping>>
    /\ UNCHANGED <<roundVars, poolVars, pyAlias, healthVars, scraperVars>>

\* line 956, 957: save_results, then sys.exit(0)
HandlerResults ==
    /\ mpc = "h_results"
    /\ resultsFile' = SaveResults(found_domains)
    /\ mpc' = hret
    /\ hret' = "none"
    /\ UNCHANGED <<cycles, state, check_count, found_domains, running, fileVars,
                   length, tld, i, steps, hist, monitorAlive, signalled,
                   restarts, opc, msite, scraping>>
    /\ UNCHANGED <<roundVars, poolVars, pyAlias, healthVars, scraperVars>>

\* the process is killed: its memory, and what its threads had buffered,
\* is gone
Crash ==
    /\ mpc \notin Stopped
    /\ restarts < MaxRestarts
    /\ mpc' = "crashed"
    /\ state' = DefaultState
    /\ check_count' = 0
    /\ found_domains' = <<>>
    /\ running' = FALSE
    /\ monitorAlive' = FALSE
    /\ signalled' = FALSE
    /\ scraping' = FALSE
    /\ length' = 0
    /\ tld' = 0
    /\ i' = 0
    /\ opc' = "idle"
    /\ msite' = "none"
    /\ hret' = "none"
    /\ fdAt' = NoFds
    /\ buf' = NoBufs
    /\ hist' = HStopped(hist, stateFile, state, check_count, found_domains)
    /\ UNCHANGED <<stateFile, tmpExists, tmpFile, resultsFile, steps, cycles,
                   restarts>>
    /\ UNCHANGED <<roundVars, poolVars, pyAlias, healthVars, scraperVars>>

\* line 897 .. 916: the process is started again over the files on disk
Restart ==
    /\ mpc \in Stopped
    /\ restarts < MaxRestarts
    /\ steps < MaxSteps
    /\ restarts' = restarts + 1
    /\ state' = LoadState(stateFile)
    /\ found_domains' = LoadResults(resultsFile)
    /\ check_count' = LoadState(stateFile).total_checked
    /\ running' = TRUE
    /\ signalled' = FALSE
    /\ monitorAlive' = TRUE
    /\ scraping' = FALSE
    /\ mpc' = "while"
    /\ msite' = "none"
    /\ hret' = "none"
    /\ length' = 0
    /\ tld' = 0
    /\ i' = 0
    /\ hist' = [FreshHist(DefaultState, TRUE)
                  EXCEPT !.expectNext = hist.expectNext,
                         !.loadedFresh = hist.loadedFresh,
                         !.stopped = hist.stopped]
    /\ UNCHANGED <<fileVars, resultsFile, opc, steps, cycles>>
    /\ UNCHANGED <<roundVars, poolVars, pyAlias, healthVars, scraperVars>>


NextRound ==
    \/ \E s \in Sources : StartFirst(s)
    \/ \E s \in Sources : StartSecond(s)
    \/ \E s \in Sources : \E o \in Outcomes : FinishAttempt(s, o)
    \/ Consume
    \/ Deadline
    \/ LoopEnd
    \/ ExitWith

(***************************************************************************)
(* ProxyScraper (proxy_scraper.py)                                         *)
(***************************************************************************)
\* the addresses the sources can yield
NumAddrs == 2

\* the argument max_proxies of the constructor
max_proxies == 1

\* line 80: at most 50 tests are submitted per cycle
BatchSize == 50

Addrs == 1..NumAddrs

\* line 70 .. 73: the addresses whose last test is more than 300 s old
DueSet(tp) == {p \in Addrs : tp[p] = "due"}

\* line 80: to_test[:50] (the first 50 in the order of the dictionary)
Batch(due) ==
    IF Cardinality(due) <= BatchSize THEN due
    ELSE CHOOSE B \in SUBSET due : Cardinality(B) = BatchSize

\* line 86 .. 88: a test that passed
OnPass(wp, p) == IF InSeq(wp, p) THEN wp ELSE Append(wp, p)

\* mutant: an address whose test failed stays in the list
OnFail_Keep(wp, p) == wp

\* line 91 .. 93: a test that failed
OnFail(wp, p) == IF InSeq(wp, p) THEN RemoveFirst(wp, p) ELSE wp

\* line 101, 102: working_proxies[-max_proxies:]
Trim(wp, m) ==
    IF Len(wp) > m THEN SubSeq(wp, Len(wp) - m + 1, Len(wp)) ELSE wp

ScraperIdle ==
    /\ working_proxies = <<>>
    /\ tested_proxies = [p \in Addrs |-> "absent"]
    /\ futures = [p \in Addrs |-> "none"]
    /\ lpc = "idle"
    /\ lastTest = [p \in Addrs |-> "none"]
    /\ got = NoProxy
    /\ seen = 0

scraperRest == <<roundVars, scanVars, poolVars, pyAlias, healthVars>>

\* line 52 .. 54: the scraper thread enters an address it has found
ScraperAdd(p) ==
    /\ tested_proxies[p] = "absent"
    /\ tested_proxies' = [tested_proxies EXCEPT ![p] = "due"]
    /\ UNCHANGED <<working_proxies, futures, lpc, lastTest, got, seen>>
    /\ UNCHANGED scraperRest

\* 300 s have passed since the test of p (the tester reads the clock at the
\* top of a cycle only)
Elapse(p) ==
    /\ lpc = "idle"
    /\ tested_proxies[p] = "fresh"
    /\ tested_proxies' = [tested_proxies EXCEPT ![p] = "due"]
    /\ UNCHANGED <<working_proxies, futures, lpc, lastTest, got, seen>>
    /\ UNCHANGED scraperRest

\* line 67 .. 80: a cycle of the tester with something to test; the tests
\* are submitted to the executor
TesterSubmit ==
    /\ lpc = "idle"
    /\ DueSet(tested_proxies) # {}
    /\ futures' = [p \in Addrs |->
                     IF p \in Batch(DueSet(tested_proxies)) THEN "running"
                     ELSE "none"]
    /\ lpc' = "collect"
    /\ UNCHANGED <<working_proxies, tested_proxies, lastTest, got, seen>>
    /\ UNCHANGED scraperRest

\* line 112 .. 134: _test_proxy returns in its worker thread
TestReturns(p, ok) ==
    /\ futures[p] = "running"
    /\ futures' = [futures EXCEPT ![p] = IF ok THEN "pass" ELSE "fail"]
    /\ UNCHANGED <<working_proxies, tested_proxies, lpc, lastTest, got, seen>>
    /\ UNCHANGED scraperRest

\* line 82 .. 97: as_completed yields the future of p; the list is updated
\* under the lock and the time of the test is recorded
Collect(p) ==
    /\ lpc = "collect"
    /\ futures[p] \in {"pass", "fail"}
    /\ working_proxies' = IF futures[p] = "pass"
                          THEN OnPass(working_proxies, p)
                          ELSE OnFail(working_proxies, p)
    /\ tested_proxies' = [tested_proxies EXCEPT ![p] = "fresh"]
    /\ lastTest' = [lastTest EXCEPT ![p] = futures[p]]
    /\ futures' = [futures EXCEPT ![p] = "none"]
    /\ UNCHANGED <<lpc, got, seen>>
    /\ UNCHANGED scraperRest

\* line 99 .. 106: every future has been yielded; the list is cut to its
\* last max_proxies entries and the cycle ends
TrimPool ==
    /\ lpc = "collect"
    /\ \A p \in Addrs : futures[p] = "none"
    /\ working_proxies' = Trim(working_proxies, max_proxies)
    /\ lpc' = "idle"
    /\ UNCHANGED <<tested_proxies, futures, lastTest, got, seen>>
    /\ UNCHANGED scraperRest

\* line 36 .. 41: get_proxy, under the lock
ScraperGetProxy ==
    /\ \E p \in (IF working_proxies # <<>>
                 THEN {working_proxies[k] : k \in 1..Len(working_proxies)}
                 ELSE {NoProxy}) : got' = p
    /\ UNCHANGED <<working_proxies, tested_proxies, futures, lpc, lastTest, seen>>
    /\ UNCHANGED scraperRest

\* line 412 .. 419: get_stats, under the lock
ScraperGetStats ==
    /\ seen' = Len(working_proxies)
    /\ UNCHANGED <<working_proxies, tested_proxies, futures, lpc, lastTest, got>>
    /\ UNCHANGED scraperRest

NextScraper ==
    \/ \E p \in Addrs : ScraperAdd(p)
    \/ \E p \in Addrs : Elapse(p)
    \/ TesterSubmit
    \/ \E p \in Addrs : \E ok \in BOOLEAN : TestReturns(p, ok)
    \/ \E p \in Addrs : Collect(p)
    \/ TrimPool
    \/ ScraperGetProxy
    \/ ScraperGetStats

(***************************************************************************)
(* WhoisProxyRotator.service_health: the module domain_hunter_proxy is not *)
(* among the sources; test_proxy.py imports it (line 7) and reads          *)
(* service_health[name]['failures'] (line 77 .. 79).  The records and      *)
(* their updates follow sections 3 and 4.2 of the specification.           *)
(***************************************************************************)
MaxStreak == 7
MaxNow == 6

\* test_proxy.py line 78: a service is healthy while failures < 5
HealthThreshold == 5

\* section 4.2: the first backoff window and the hard cap, in clock ticks
BackoffBase == 1
BackoffCap == 4

\* a source through the primary egress and through one rotated egress
HealthPairs == {1} \X {NoProxy, 1}

Primary(pair) == <<pair[1], NoProxy>>

\* section 3, HealthState; `level` is the exponent of the next window, `last`
\* the signal of the latest query of the pair (history)
FreshHealth ==
    [consecutiveFailures |-> 0, backoffUntil |-> 0, level |-> 0,
     decayed |-> FALSE, last |-> "none"]

HealthIdle == health = [p \in HealthPairs |-> FreshHealth] /\ now = 0

\* glossary, Backoff: a cooldown window during which the pair is not queried
InBackoff(h, t) == t < h.backoffUntil

\* section 4.2: backoffDuration grows exponentially up to a hard cap
BackoffDuration(level) ==
    IF BackoffBase * Pow(2, level) < BackoffCap THEN BackoffBase * Pow(2, level)
    ELSE BackoffCap

NextLevel(level) ==
    IF BackoffDuration(level) = BackoffCap THEN level ELSE level + 1

\* mutant: a success halves the count of failures
OnSuccess_Halve(h, sig) ==
    [h EXCEPT !.consecutiveFailures = h.consecutiveFailures \div 2, !.last = sig]

\* section 4.2: on success (Signal # Unknown) consecutiveFailures is reset;
\* section 3: the backoff is reset to zero only on a success
OnSuccess(h, sig) ==
    [h EXCEPT !.consecutiveFailures = 0, !.level = 0, !.last = sig]

\* section 4.2: on failure consecutiveFailures is incremented; once the
\* threshold is crossed backoffUntil = now + backoffDuration
OnFailure(h, t) ==
    LET n == h.consecutiveFailures + 1 IN
    IF n >= HealthThreshold
    THEN [consecutiveFailures |-> n, backoffUntil |-> t + BackoffDuration(h.level),
          level |-> NextLevel(h.level), decayed |-> FALSE, last |-> "Unknown"]
    ELSE [h EXCEPT !.consecutiveFailures = n, !.last = "Unknown"]

\* section 4.2: selectBatch offers the sources whose primary-egress health
\* is not in backoff, and a pair in backoff is not queried
Eligible(pair) ==
    /\ ~InBackoff(health[Primary(pair)], now)
    /\ ~InBackoff(health[pair], now)

\* query(source, candidate) through one egress, with its signal
HealthQuery(pair, sig) ==
    /\ Eligible(pair)
    /\ sig = "Unknown" => health[pair].consecutiveFailures < MaxStreak
    /\ health' = [health EXCEPT ![pair] =
                     IF sig = "Unknown" THEN OnFailure(@, now) ELSE OnSuccess(@, sig)]
    /\ UNCHANGED <<now, roundVars, scanVars, poolVars, pyAlias, scraperVars>>

\* section 4.2: the window has elapsed without further failure, and the
\* duration is halved
HealthDecay(pair) ==
    /\ ~InBackoff(health[pair], now)
    /\ health[pair].level > 0 /\ ~health[pair].decayed
    /\ health' = [health EXCEPT ![pair].level = @ - 1, ![pair].decayed = TRUE]
    /\ UNCHANGED <<now, roundVars, scanVars, poolVars, pyAlias, scraperVars>>

\* section 4.2: the recovery task probes a pair in backoff with the reference
\* candidate; a Negative result clears the backoff early
HealthProbe(pair, sig) ==
    /\ InBackoff(health[pair], now)
    /\ health' = IF sig = "Negative"
                 THEN [health EXCEPT ![pair].backoffUntil = now]
                 ELSE health
    /\ UNCHANGED <<now, roundVars, scanVars, poolVars, pyAlias, scraperVars>>

ClockTick ==
    /\ now < MaxNow
    /\ now' = now + 1
    /\ UNCHANGED <<health, roundVars, scanVars, poolVars, pyAlias, scraperVars>>

NextHealth ==
    \/ \E pair \in HealthPairs, sig \in {"Positive", "Negative", "Unknown"} :
          HealthQuery(pair, sig)
    \/ \E pair \in HealthPairs : HealthDecay(pair)
    \/ \E pair \in HealthPairs : HealthProbe(pair, "Negative")
    \/ ClockTick

HealthInit == HealthIdle /\ RoundQuiet /\ proxies = <<>> /\ bad_proxies = {}
                /\ ScanIdle /\ PoolIdle /\ pyAlias = TRUE /\ ScraperIdle

SpecHealth == HealthInit /\ [][NextHealth]_vars

\* a round on its own: the scan stands at its call of check_domain
RoundInit == InitRound /\ ScanIdle /\ PoolIdle /\ HealthIdle /\ ScraperIdle

SpecRound == RoundInit /\ [][NextRound]_vars

\* the worker threads of a round on their own: every future runs
\* _check_with_retry to its end
NextRetry ==
    \/ \E s \in Sources : StartFirst(s)
    \/ \E s \in Sources : StartSecond(s)
    \/ \E s \in Sources : \E o \in Outcomes : FinishAttempt(s, o)

SpecRetry == RoundInit /\ [][NextRetry]_vars

NextScan ==
    \/ WhileTop
    \/ Wrap1 \/ Wrap2 \/ Wrap3
    \/ Roll1 \/ Roll2 \/ Roll3
    \/ ForTop
    \/ \E r \in BOOLEAN : DnsCheck(r)
    \/ \E v \in CallOutcomes({"taken", "available"}) : WhoisCheck(v)
    \/ \E p \in CallOutcomes({"affordable", "premium"}) : PriceCheck(p)
    \/ SaveRes
    \/ SetIdx
    \/ Next1 \/ Next2
    \/ SaveOpen \/ SaveClose \/ SaveReplace
    \/ FinResults
    \/ MonitorOpen \/ MonitorClose \/ MonitorReplace
    \/ Shutdown
    \/ HandlerResults
    \/ Crash
    \/ Restart

\* the scan on its own: check_domain is taken by its outcomes
ScanInit ==
    InitScan /\ RoundIdle /\ PoolIdle /\ HealthIdle /\ ScraperIdle
        /\ pyAlias \in BOOLEAN

SpecScan == ScanInit /\ [][NextScan]_vars

\* one process of the scan, with writes of the checkpoint that fail
NextSave ==
    \/ WhileTop
    \/ Wrap1 \/ Wrap2 \/ Wrap3
    \/ Roll1 \/ Roll2 \/ Roll3
    \/ ForTop
    \/ \E r \in BOOLEAN : DnsCheck(r)
    \/ \E v \in CallOutcomes({"taken", "available"}) : WhoisCheck(v)
    \/ \E p \in CallOutcomes({"affordable", "premium"}) : PriceCheck(p)
    \/ SaveRes
    \/ SetIdx
    \/ Next1 \/ Next2
    \/ SaveOpen \/ SaveClose \/ SaveReplace
    \/ SaveOpenFails \/ SaveWriteFails
    \/ FinResults
    \/ MonitorOpen \/ MonitorClose \/ MonitorReplace
    \/ Shutdown
    \/ HandlerResults

SaveInit ==
    InitScan /\ RoundIdle /\ PoolIdle /\ HealthIdle /\ ScraperIdle
        /\ pyAlias \in BOOLEAN

SpecSave == SaveInit /\ [][NextSave]_vars

NextPool ==
    \/ TesterTake
    \/ \E status \in ProbeStatuses : TesterProbe(status)
    \/ TesterAppend
    \/ \E g \in Triggers \ {"tester"} : TriggerCheck(g)
    \/ \E g \in Triggers : TriggerSet(g)
    \/ \E found \in SUBSET Feed : \E ord \in Orders(found \ bad_proxies) :
          ScrapeRun(found, ord)
    \/ HourPasses
    \/ \E c \in Callers : CallerCheck(c)
    \/ \E c \in Callers : CallerPop(c)
    \/ \E c \in Callers : CallerAppend(c)
    \/ \E c \in Callers : \E o \in {"ok", "none", "raise"} : CallerQuery(c, o)
    \/ \E c \in Callers : MarkRemove(c)
    \/ \E c \in Callers : MarkAdd(c)

\* the pool on its own: neither a round nor the scan is followed
PoolInit ==
    InitPool /\ RoundQuiet /\ ScanQuiet /\ HealthIdle /\ ScraperIdle
        /\ pyAlias = TRUE

SpecPool == PoolInit /\ [][NextPool]_vars

\* a small pool, with one address waiting for the tester, and the worker
\* threads of a round calling get_proxy
InitGet ==
    /\ proxies \in InitPools
    /\ proxy_queue = <<NumProxies + 1>>
    /\ scrapeDue = FALSE
    /\ gpc = [g \in Triggers |-> "idle"]
    /\ bad_proxies = {}
    /\ scraping = FALSE
    /\ inflight = 0
    /\ tpc = "top"
    /\ tproxy = NoProxy
    /\ cpc = [c \in AllCallers |-> "idle"]
    /\ cheld = [c \in AllCallers |-> NoProxy]
    /\ probed = {proxies[k] : k \in 1..Len(proxies)}
    /\ failures = NoFailures

NextGet ==
    \/ TesterTake
    \/ \E status \in ProbeStatuses : TesterProbe(status)
    \/ TesterAppend
    \/ \E c \in Getters : CallerCheck(c)
    \/ \E c \in Getters : CallerPop(c)
    \/ \E c \in Getters : CallerAppend(c)
    \/ \E c \in Getters : \E o \in {"ok", "none", "raise"} : CallerQuery(c, o)
    \/ \E c \in Getters : MarkRemove(c)
    \/ \E c \in Getters : MarkAdd(c)

GetInit ==
    InitGet /\ RoundQuiet /\ ScanQuiet /\ HealthIdle /\ ScraperIdle
        /\ pyAlias = TRUE

SpecGet == GetInit /\ [][NextGet]_vars

\* ProxyScraper on its own
ScraperInit ==
    ScraperIdle /\ RoundQuiet /\ proxies = <<>> /\ bad_proxies = {}
        /\ ScanIdle /\ PoolIdle /\ HealthIdle /\ pyAlias = TRUE

SpecScraper == ScraperInit /\ [][NextScraper]_vars

(***************************************************************************)
(* Claims about one classify round (checked under SpecRound)               *)
(***************************************************************************)
RoundDone == rpc = "done"

\* number of signals sig in the list rs
Count(rs, sig) == Cardinality({k \in 1..Len(rs) : rs[k] = sig})

\* some dispatched query yielded a Negative signal
SomeNegative == \E s \in Sources : fstate[s] = "done" /\ fresult[s] = SigFalse

\* number of Positive signals that arrived before any Negative signal
PositivesBeforeNegative ==
    Cardinality({k \in 1..Len(arrived) :
                   /\ fresult[arrived[k]] = SigTrue
                   /\ \A j \in 1..k : fresult[arrived[j]] # SigFalse})

\* membership of the working pool
PoolSet(ps) == {ps[k] : k \in 1..Len(ps)}

\* C1: in a round in which some dispatched query yields a Negative signal,
\* the verdict is 'taken', whatever the arrival order.
\* Fails: a Positive that arrives first returns 'available' at once.
C1_NegativeDominance == RoundDone /\ SomeNegative => verdict = "taken"

C4_IndeterminateIsTaken ==
    RoundDone /\ (timedOut \/ consumed = NumSources)
              /\ Count(results, SigFalse) = 0
              /\ Count(results, SigTrue) < QuorumClaimed
        => verdict = "taken"

\* C10: once the result loop has been left with the verdict, no query of
\* the round marks a proxy bad or changes the membership of the pool.
\* Fails: running queries are not cancelled and still call mark_bad.
C10_LateResultsDiscarded ==
    [][rpc # "loop" =>
          bad_proxies' = bad_proxies /\ PoolSet(proxies') = PoolSet(proxies)]_vars

\* C11: a round in which a source failed (its query raised or returned
\* None, or it was still running at the deadline) ends with check_domain
\* returning 'available' or 'taken', never with an exception.
\* Fails: where `except TimeoutError` misses the timeout of as_completed,
\* check_domain raises and run() ends the scan.
C11_SourceFailureAbsorbed ==
    RoundDone /\ (timedOut \/ \E s \in Sources :
                                 fstate[s] = "done" /\ fresult[s] = SigNone)
        => verdict \in {"available", "taken"}

Candidate == <<length, tld, i>>

\* the dictionary a start would load from a checkpoint file that is there
Doc(file) == JsonLoad(file[1])

\* order of cursors: length, then TLD index, then combo index
CursorLE(a, b) ==
    \/ a[1] < b[1]
    \/ a[1] = b[1] /\ a[2] < b[2]
    \/ a[1] = b[1] /\ a[2] = b[2] /\ a[3] <= b[3]

\* C5: after a stop and a restart the scan begins at the first candidate
\* that had not been fully processed before the stop (stated here for the
\* most favourable case: the checkpoint on disk holds exactly the cursor
\* and the counters the process had in memory when it stopped).
\* Fails: the checkpoint holds the index of the candidate processed last,
\* or of an earlier one when the last was rejected by dns_check, so that
\* candidate is processed again.
C5_CursorResumption ==
    mpc = "dns" /\ restarts > 0 /\ hist.firstAfterLoad /\ hist.loadedFresh
               /\ hist.expectNext # NoCand
        => Candidate = hist.expectNext

\* C6: within a run the cursor in memory, and the successive documents of
\* the checkpoint file, never step backwards in the order (length, TLD
\* index, combo index), except for the wrap from a length above 6 to
\* length 3.
\* Fails: the moves to the next TLD and to the next length update the three
\* fields one at a time, and save_state can run in between.
C6_CursorNeverRegresses ==
    [][mpc \notin Stopped /\ mpc' # "crashed" =>
          /\ \/ CursorLE(Cursor(state), Cursor(state'))
             \/ state.current_length > MaxLength /\ state'.current_length = MinLength
          /\ (stateFile # NoFile /\ stateFile' # NoFile /\ stateFile' # stateFile) =>
                \/ CursorLE(Cursor(Doc(stateFile)), Cursor(Doc(stateFile')))
                \/ hist.everWrapped]_vars

\* C7: a running scan that finds current_length above 6 at the head of its
\* loop takes the wrap; the wrap leaves the cursor at (3, 0, 0); and the
\* next candidate formed is the one at (3, 0, 0).
C7_Wraparound ==
    [][/\ (mpc = "while" /\ running /\ state.current_length > MaxLength
              /\ mpc' \notin {"while", "handler", "crashed"}) => mpc' = "wrap1"
       /\ (mpc = "wrap3" /\ mpc' = "while") => Cursor(state') = <<MinLength, 0, 0>>
       /\ (hist'.justWrapped /\ mpc' = "dns") => Candidate' = <<MinLength, 0, 0>>]_vars

\* C7 witness: the first candidate after a wrap is being processed
C7_Witness ==
    hist.justWrapped /\ mpc = "dns" /\ Candidate = <<MinLength, 0, 0>>
        /\ Cursor(state) = <<MinLength, 0, 0>>

\* C8: when the process exits after a shutdown signal was delivered, the
\* checkpoint file holds the current cursor and the found-list file every
\* Found record appended so far (stated for a cursor that has left the
\* start of the keyspace).
\* Fails: the main thread and the monitor thread write through the same
\* temp file; a monitor cycle that opens it between the flush and the
\* os.replace of the last save_state empties the file that is then moved
\* over the checkpoint, and the process exits before the monitor writes.
C8_ShutdownFlush ==
    [][(signalled /\ mpc = "fin_results" /\ mpc' = "exited"
           /\ Cursor(state) # Cursor(DefaultState)) =>
          /\ stateFile' # NoFile
          /\ Cursor(Doc(stateFile')) = Cursor(state)
          /\ resultsFile' = found_domains]_vars

\* C9: a candidate that dns_check rejects is counted once in check_count;
\* neither check_domain nor check_price is called for it and no Found
\* record is appended.
C9_PreFilterShortCircuit ==
    hist.iterDns = "False" =>
        /\ ~hist.iterWhois
        /\ ~hist.iterPrice
        /\ check_count = hist.iterCount0 + 1
        /\ Len(found_domains) = hist.iterFound0
        /\ mpc # "dns"

\* C9 witness: the loop has gone on after a candidate rejected by dns_check
C9_Witness ==
    hist.iterDns = "False" /\ mpc = "for" /\ check_count = hist.iterCount0 + 1

\* a is a prefix of b
IsPrefix(a, b) == Len(a) <= Len(b) /\ a = SubSeq(b, 1, Len(a))

\* C15: whenever the checkpoint file changes, what it then holds is a
\* complete document.
\* Fails: save_state of the main thread and of the monitor thread go
\* through the same temp path; one thread opens (and so empties) the temp
\* file between the flush and the os.replace of the other, and an empty
\* file is moved over the checkpoint.
C15_AtomicPersistence ==
    [][stateFile' # stateFile => stateFile' # NoFile]_vars

C17_NeverTerminatesOnItsOwn ==
    [][(mpc = "fin_results" /\ mpc' = "exited") => signalled]_vars

(***************************************************************************)
(* Claims about the proxy pool (checked under SpecPool)                    *)
(***************************************************************************)
\* C12: under every interleaving of get_proxy, mark_bad and the tester
\* thread, no address is both in proxies and in bad_proxies.
\* Fails: get_proxy takes the address out and puts it back in two steps;
\* a mark_bad of the same address in between finds it absent, removes
\* nothing and reports it bad, and get_proxy then puts it back.
C12_ReportBadFinal ==
    \A k \in 1..Len(proxies) : proxies[k] \notin bad_proxies

\* C14: a _scrape thread is started only when none is in flight, more than
\* 3600 s have passed since the last one finished, and the pool holds
\* fewer than 30 addresses.
\* Fails: trigger_scrape tests the condition and sets `scraping` in two
\* steps and holds no lock; two callers that both pass the test both start
\* a thread.
C14_DiscoveryGuard ==
    [][inflight' > inflight =>
          inflight = 0 /\ scrapeDue /\ Len(proxies) < ScrapeBelow]_vars

\* C18: every address in proxies, and every address get_proxy has handed
\* out, was probed by the tester and answered with status 200.
C18_AdmissionRequiresValidation ==
    /\ \A k \in 1..Len(proxies) : proxies[k] \in probed
    /\ \A c \in Callers : cheld[c] # NoProxy => cheld[c] \in probed

\* C18 witness: an address discovery found is in the pool, after its probe
C18_Witness ==
    \E k \in 1..Len(proxies) : proxies[k] \in Feed /\ proxies[k] \in probed

\* C19: under every interleaving of the tester, get_proxy and mark_bad,
\* proxies never holds more than 50 addresses.
\* Fails: the tester reads len(proxies) while get_proxy has an address
\* taken out; the tester admits one more and get_proxy puts its address
\* back.
C19_PoolBounded ==
    Len(proxies) <= PoolTarget

\* C20: an address enters bad_proxies only when more than one query through
\* it has failed.
\* Fails: _check calls mark_bad on the first None or exception.
C20_BadAfterRepeatedFailure ==
    [][\A p \in bad_proxies' \ bad_proxies :
          p \in DOMAIN failures /\ failures[p] > 1]_vars

(***************************************************************************)
(* Further claims about one classify round (checked under SpecRound)       *)
(***************************************************************************)
\* C21: when check_domain has returned or raised, and the scan loop goes on
\* to its next candidate, no query of the round is queued or executing.
C21_OneCandidateInFlight ==
    rpc = "done" => \A s \in Sources : Finished(s) /\ held[s] = NoProxy

\* C21 witness: the round ended on a signal while another source was still
\* in its query; that query has finished, unread, before the round is done
C21_Witness ==
    /\ rpc = "done"
    /\ verdict \in {"taken", "available"}
    /\ consumed < Len(arrived)
    /\ \A s \in Sources : fstate[s] = "done"

(***************************************************************************)
(* Further claims about the scan loop (checked under SpecScan)             *)
(***************************************************************************)
\* the position of the tuple c in the ordered product of an alphabet of n
\* characters: c read as a number in base n
RECURSIVE PlaceValue(_, _)
PlaceValue(c, n) ==
    IF Len(c) = 0 THEN 0
    ELSE PlaceValue(SubSeq(c, 1, Len(c) - 1), n) * n + c[Len(c)]

\* C22: every candidate the loop forms is the element at its combo index of
\* the ordered product of the alphabet of its length (letters only at
\* length 3) with the TLD at its TLD index; the first candidate of a run is
\* the one at the cursor in memory, and each later one is the successor of
\* the one before in the order combo index, TLD index, length (with the
\* wrap from length 6 to length 3).
C22_CandidateOfCursor ==
    [][(mpc = "for" /\ mpc' = "dns") =>
          /\ Candidate' = Candidate
          /\ length \in MinLength..MaxLength
          /\ tld \in 0..(NumTlds - 1)
          /\ i \in 0..(NumCombos(length) - 1)
          /\ \A j \in 1..length :
                Combo(length, i)[j] <
                    (IF length = MinLength THEN NLetters ELSE NLetters + NDigits)
          /\ PlaceValue(Combo(length, i),
                        IF length = MinLength THEN NLetters ELSE NLetters + NDigits) = i
          /\ IF hist.firstAfterLoad
             THEN Candidate = Cursor(state)
             ELSE Candidate = hist.expectNext]_vars

\* C22 witness: the first candidate of the second TLD is formed right after
\* the last candidate of the first TLD
C22_Witness ==
    mpc = "dns" /\ ~hist.firstAfterLoad /\ Candidate = hist.expectNext
        /\ tld = 1 /\ i = 0

C23_PersistenceFailureAbsorbed ==
    [][/\ (mpc \in SaveSites /\ mpc' \notin {mpc, "sv_close", "handler"}) =>
             /\ mpc' = AfterSave(mpc)
             /\ Cursor(state') = Cursor(state)
             /\ <<check_count', found_domains', running'>> =
                    <<check_count, found_domains, running>>
             /\ stateFile' = stateFile
       /\ (mpc = "sv_close" /\ mpc' \notin {"sv_close", "sv_replace", "handler"}) =>
             /\ mpc' = AfterSave(msite)
             /\ state' = state
             /\ <<check_count', found_domains', running'>> =
                    <<check_count, found_domains, running>>
       /\ (hist.failed # <<>> /\ mpc \in SaveSites /\ mpc' = "sv_close") =>
             /\ fdAt'["main"] = "tmp"
             /\ buf'["main"] = JsonDump(SaveState(state, check_count, found_domains))
       /\ (hist.failed # <<>> /\ opc = "idle" /\ opc' = "close") =>
             /\ fdAt'["mon"] = "tmp"
             /\ buf'["mon"] = JsonDump(SaveState(state, check_count, found_domains))]_vars

\* C23 witness: after a failed write the scan has gone on, and a later
\* save_state has put the document of the present cursor and counters
\* into the checkpoint file
C23_Witness ==
    /\ hist.failed # <<>>
    /\ mpc \notin Stopped
    /\ stateFile = <<JsonDump(SaveState(state, check_count, found_domains))>>
    /\ check_count > hist.failed[1].total_checked

(***************************************************************************)
(* Claims about the cursor and the checkpoint (checked under SpecScan)     *)
(***************************************************************************)
\* C25: between two candidates of one per-TLD loop the cursor names the
\* candidate that has just finished: when the loop is about to form
\* candidate i and an earlier candidate of this run has finished,
\* state['current_combo_index'] = i - 1.
C25_CursorAdvancesEveryCandidate ==
    (mpc = "for" /\ i > 0 /\ ~hist.firstAfterLoad) =>
        state.current_combo_index = i - 1

\* C26: when the per-TLD loop was left because `running` became false, with
\* candidates of the TLD still ahead, the main thread neither increments
\* current_tld_index nor resets current_combo_index.
C26_ShutdownKeepsCursor ==
    [][(mpc \in {"next1", "next2"} /\ ~running /\ i < NumCombos(length)
            /\ mpc' \notin Stopped) =>
          Cursor(state') = Cursor(state)]_vars

\* the cursor at the end of the move to the next TLD or length (or of the
\* wrap) that the main thread is in the middle of at pc
MoveEnd(pc, st) ==
    IF pc = "next2" THEN NextCombo(st)
    ELSE IF pc = "roll2" THEN RollCombo(RollTld(st))
    ELSE IF pc = "roll3" THEN RollCombo(st)
    ELSE IF pc = "wrap2" THEN WrapCombo(WrapTld(st))
    ELSE IF pc = "wrap3" THEN WrapCombo(st)
    ELSE st

\* C27: no save_state stamps and dumps the cursor while the main thread is
\* in the middle of a move to the next TLD or length with a triple that is
\* neither the one before the move nor the one after it: neither a cycle
\* of the monitor thread begins its save_state there, nor is the shutdown
\* handler, whose first statement after the flag is save_state, entered
\* there.
C27_CheckpointNeverTorn ==
    [][Cursor(state) # Cursor(MoveEnd(mpc, state)) =>
          /\ ~(opc = "idle" /\ opc' = "close")
          /\ mpc' # "handler"]_vars

\* the record appended last is that of the candidate in hand, and
\* save_results has not been called with it yet
RecordPending ==
    /\ mpc \notin Stopped
    /\ Len(found_domains) > 0
    /\ found_domains[Len(found_domains)] = FoundRecord(length, tld, i)
    /\ \A j \in 1..Len(resultsFile) : resultsFile[j] # FoundRecord(length, tld, i)

\* C28: while the record of a found candidate has not been handed to
\* save_results, the checkpoint file holds no cursor past that candidate: no
\* later length, no later TLD of the same length, no larger combo index of
\* the same length and TLD (an equal index makes a restart visit the
\* candidate again, so it has not passed it). Stated for runs before the
\* first wrap of the length.
C28_FoundDurableBeforeCursor ==
    (RecordPending /\ stateFile # NoFile /\ ~hist.everWrapped) =>
        CursorLE(Cursor(Doc(stateFile)), Candidate)

(***************************************************************************)
(* Claims about the reduction of a round (checked under SpecRound)         *)
(***************************************************************************)
\* positions in arrival order of the signals (not None) that the result
\* loop has taken from as_completed
SignalsTaken == {k \in 1..consumed : fresult[arrived[k]] # SigNone}

AttemptRank(pos) ==
    IF pos = "queued" THEN 0
    ELSE IF pos = "net1" THEN 1
    ELSE IF pos = "start2" THEN 2
    ELSE IF pos = "net2" THEN 3
    ELSE 4

\* C30: a future only moves forward through first call, retry, second call
\* and completion, so service['check'] is called at most twice; the first
\* attempt either returns a signal, which completes the future with that
\* signal and without a retry, or returns None (from the call, or without a
\* call when use_proxy was drawn and the pool is empty), and then the retry
\* follows; the retry uses the opposite egress choice, and what it returns,
\* None included, completes the future.
C30_RetryOppositeEgress ==
    [][\A s \in Sources :
         /\ fstate'[s] # fstate[s] =>
               AttemptRank(fstate'[s]) > AttemptRank(fstate[s])
         /\ (fstate[s] = "queued" /\ fstate'[s] # "queued") =>
               \/ fstate'[s] = "net1"
               \/ fstate'[s] = "start2" /\ useProxy'[s] /\ proxies = <<>>
         /\ (fstate[s] = "net1" /\ fstate'[s] # "net1") =>
               \/ fstate'[s] = "done" /\ fresult'[s] # SigNone
               \/ fstate'[s] = "start2" /\ fresult'[s] = SigNone
         /\ (fstate[s] = "start2" /\ fstate'[s] # "start2") =>
               /\ useProxy'[s] = ~useProxy[s]
               /\ \/ fstate'[s] = "net2"
                  \/ /\ fstate'[s] = "done" /\ fresult'[s] = SigNone
                     /\ useProxy'[s] /\ proxies = <<>>
         /\ (fstate[s] = "net2" /\ fstate'[s] # "net2") =>
               fstate'[s] = "done"]_vars

\* C30 witness: one source is in its second attempt, through a proxy after
\* a direct first attempt; another has completed with a signal; a third
\* has returned None after both attempts
C30_Witness ==
    \E s, t, u \in Sources :
        /\ fstate[s] = "net2" /\ useProxy[s] /\ held[s] # NoProxy
        /\ fstate[t] = "done" /\ fresult[t] # SigNone
        /\ fstate[u] = "done" /\ fresult[u] = SigNone

(***************************************************************************)
(* Claims about get_proxy under concurrency (checked under SpecGet)        *)
(***************************************************************************)
\* C31: a call of get_proxy that found the pool not empty takes its head,
\* an address of the pool, and never raises; and when it puts the address
\* back the pool has the members it had plus that address, nothing being
\* pushed out.
C31_GetProxySafe ==
    [][\A c \in Getters :
         /\ (cpc[c] = "checked" /\ cpc'[c] # "checked") =>
               /\ cpc'[c] = "popped"
               /\ InSeq(proxies, cheld'[c])
         /\ (cpc[c] = "popped" /\ cpc'[c] # "popped") =>
               PoolSet(proxies') = PoolSet(proxies) \cup {cheld[c]}]_vars

(***************************************************************************)
(* Claims about the loop body of search_domains (checked under SpecScan)   *)
(***************************************************************************)
\* the three calls of the iteration in progress, or of the one that ended
\* last, returned what a Found record requires
IterAccepted ==
    /\ hist.iterDns = "True"
    /\ hist.iterStatus = "available"
    /\ hist.iterPriceRet = "affordable"

\* C32: in an iteration of the loop exactly one Found record is appended if
\* dns_check returned True, check_domain returned 'available' and
\* check_price returned affordable, and none otherwise; the record holds
\* the domain and the length of the candidate of that iteration.
C32_FoundIffAccepted ==
    (hist.iterCand # NoCand /\ mpc \notin Stopped) =>
        IF IterAccepted
        THEN /\ Len(found_domains) = hist.iterFound0 + 1
             /\ found_domains[Len(found_domains)] =
                    FoundRecord(hist.iterCand[1], hist.iterCand[2], hist.iterCand[3])
        ELSE Len(found_domains) = hist.iterFound0

\* C32 witness: an iteration in which the three calls accepted the
\* candidate has ended with its record appended
C32_Witness ==
    /\ mpc = "for"
    /\ IterAccepted
    /\ Len(found_domains) = hist.iterFound0 + 1
    /\ hist.iterCand = <<length, tld, i - 1>>

\* C33: when an iteration has brought check_count to a multiple of 100,
\* the loop is back at its head, about to form the next candidate, only
\* after a checkpoint with that count has been written.
\* Fails: the `continue` of a candidate rejected by dns_check, and that of
\* a premium one, skip the test `check_count % 100 == 0`.
C33_CheckpointEveryHundred ==
    (mpc = "for" /\ hist.iterCand # NoCand /\ check_count = hist.iterCount0 + 1
        /\ check_count % SaveEvery = 0) =>
        /\ stateFile # NoFile
        /\ Doc(stateFile).total_checked = check_count

C35_UnreadableCheckpointFallback ==
    [][(mpc \in Stopped /\ mpc' \notin Stopped /\ stateFile = NoFile) =>
          /\ mpc' = "while"
          /\ Cursor(state') = <<MinLength, 0, 0>>
          /\ state'.total_checked = 0
          /\ state'.total_found = 0
          /\ check_count' = 0
          /\ resultsFile' = resultsFile
          /\ found_domains' = resultsFile]_vars

\* C35 witness: a run has started with no readable checkpoint over a
\* found-list file that holds a record
C35_Witness ==
    /\ restarts > 0 /\ mpc = "while" /\ length = 0
    /\ stateFile = NoFile /\ tmpExists = FALSE /\ opc = "idle"
    /\ Cursor(state) = <<MinLength, 0, 0>>
    /\ check_count = 0
    /\ Len(resultsFile) > 0
    /\ found_domains = resultsFile

\* the loop body is at work on a candidate it has formed
CandidateFormed == mpc \in {"dns", "whois", "price", "saveres", "setidx"}

\* C36: while the loop body is at work on a candidate, the length is within
\* 3..6, the TLD index within 0..NumTlds - 1 and the combo index within
\* 0..NumCombos(length) - 1, and the cursor in memory holds that length and
\* that TLD index; in every run, whatever checkpoint it was started from.
C36_CursorInRange ==
    CandidateFormed =>
        /\ length >= MinLength /\ length <= MaxLength
        /\ tld >= 0 /\ tld < NumTlds
        /\ i >= 0 /\ i < NumCombos(length)
        /\ state.current_length = length
        /\ state.current_tld_index = tld

\* C36 witness: the last candidate of the keyspace is being processed
C36_Witness ==
    /\ mpc = "dns"
    /\ length = MaxLength
    /\ tld = NumTlds - 1
    /\ i = NumCombos(MaxLength) - 1

\* C37: within a run check_count never decreases; an iteration of the loop
\* that ends has added exactly 1 to it; and whenever the checkpoint file
\* gets a new document, the total_checked in it is the check_count of that
\* moment.
\* Fails: the monitor thread stamps total_checked (line 983) and writes the
\* file later (lines 988 .. 990) while the main thread goes on counting.
C37_TotalCheckedExact ==
    [][(mpc \notin Stopped /\ mpc' \notin Stopped) =>
          /\ check_count' >= check_count
          /\ (CandidateFormed /\ i' = i + 1) => check_count' = hist.iterCount0 + 1
          /\ (stateFile' # stateFile /\ stateFile' # NoFile) =>
                Doc(stateFile').total_checked = check_count']_vars

(***************************************************************************)
(* Claims about ProxyScraper (checked under SpecScraper)                   *)
(***************************************************************************)
\* C38: working_proxies never holds more than max_proxies addresses, nor
\* does get_stats ever report more, and no address is in the list twice.
\* Fails: the list is cut to max_proxies only after the last test of a batch
\* has been handled; until then every test that passes appends to it.
C38_ScraperPoolBounded ==
    /\ Len(working_proxies) <= max_proxies
    /\ seen <= max_proxies
    /\ \A j, k \in 1..Len(working_proxies) :
         working_proxies[j] = working_proxies[k] => j = k

\* C39: when the loop has handled the test of an address, the address is in
\* working_proxies if the test passed and is not if it failed; every address
\* in the list, and so every address get_proxy returns, passed the last of
\* its tests the loop has handled.
C39_OnlyPassingProxies ==
    [][/\ \A p \in Addrs :
            (futures[p] \in {"pass", "fail"} /\ futures'[p] = "none") =>
                (InSeq(working_proxies', p) <=> futures[p] = "pass")
       /\ \A k \in 1..Len(working_proxies') :
            lastTest'[working_proxies'[k]] = "pass"
       /\ (got' # got /\ got' # NoProxy) =>
            /\ InSeq(working_proxies, got')
            /\ lastTest[got'] = "pass"]_vars

\* C39 witness: an address that get_proxy has returned was tested again, the
\* test failed and the address is out of the list
C39_Witness ==
    /\ got # NoProxy
    /\ lastTest[got] = "fail"
    /\ ~InSeq(working_proxies, got)
    /\ lpc = "idle"

====
